---- MODULE Spec2Model ----
(***************************************************************************)
(* Model of the rotating log writer of hsd-nethealth-status               *)
(* (lib/log/writer.js, class Writer) together with the segment directory  *)
(* it writes, the directory listing (lib/log/common.js, getStoreFiles)    *)
(* and the JSON reader (lib/log/reader.js, lib/log/jsonreader.js).        *)
(*                                                                         *)
(* Every async method of the writer is cut at its awaits: the code        *)
(* between two awaits is one atomic action (node runs it to completion),  *)
(* and the actions of different calls interleave freely.                  *)
(***************************************************************************)
EXTENDS Integers, Sequences, FiniteSets, TLC

\* ------------------------------------------------------------------ bounds

\* Number of write() calls the producer issues.
MaxWrites == 3

\* Number of I/O failures (stream 'error' events, failed opens and closes)
\* injected.
MaxErrors == 1

\* The same two budgets for the runs of the writer that are followed further,
\* without a close() of the owner (SpecDeep).
DeepWrites == 4

DeepErrors == 2

\* The segment timestamps of the directories that are listed.
MaxSegs == 2

\* The records of the session whose directory is read.
MaxRecs == 3

\* The writeLog calls of a NodesWriter session.
MaxLogs == 3

\* The index() calls on a DNSIndexer.
MaxIndex == 4

\* ------------------------------------------------------- program constants

\* options.maxFileSize as set by the rotation scenario (StoreOptions).
maxFileSize == 16

\* this.stream = null
NoStream == -1

\* this.timer == null / undefined
NoTimer == -1

\* The timestamp `undefined` that handleError hands to retry(): getFileName
\* formats it with %d, which prints NaN, so the file is event-NaN.<ext>.
NaNTs == 0

\* Byte lengths of the data buffers handed to write().
DataLens == {8}

\* Date.now() at the first write() of the session.
FirstTime == 1000

\* Timestamp of the one segment a previous session may have left.
OldTime == FirstTime - 1

\* The timestamps the producer passes: Date.now() is read once per call
\* (writeData) and the names of the segments are only compared with each
\* other, so between two calls the clock either stays or advances by one.
Times == FirstTime..(FirstTime + MaxWrites + DeepWrites)

\* Every segment timestamp a file name can carry in this model.
FileKeys == Times \cup {OldTime, NaNTs}

VARIABLES
  ready,      \* this.ready
  closed,     \* this.closed
  closing,    \* this.closing
  rotating,   \* this.rotating
  opening,    \* this.opening
  stream,     \* this.stream: the timestamp of the file it appends to, or NoStream
  sid,        \* identity of the stream object held in this.stream
  ended,      \* the stream object in this.stream has been closed
  fileSize,   \* this.fileSize
  filePath,   \* this.filePath (the timestamp in the name)
  timer,      \* this.timer: NoTimer, or the ts argument the callback will use
  buffer,     \* this._buffer: sequence of queued [id, len, ts, bare]
  lockHeld,   \* the lockfile of the prefix is held by this writer
  opens,      \* openFile() calls in flight, in call order: [ts, pc]
  rot,        \* the rotate() call in flight: [pc, last, target]
  ucl,        \* the owner's close() call: [pc, target]
  gzips,      \* gzip() calls in flight, in call order: [file, pc]
  plain,      \* directory: timestamp -> records of event-<ts>.<ext>
  gz,         \* directory: timestamp -> records of event-<ts>.<ext>.gz
  now,        \* the last value Date.now() returned
  calls,      \* history: the write() calls issued, [ts, len]
  rets,       \* history: what each write() call returned
  errs,       \* number of failures injected so far
  budget,     \* what the run is given: options.autoGzip, and the numbers of
              \* write() calls and of failures the environment has in all
  nodes,      \* NodesWriter: lastTimestamp and lastConfig
  reader,     \* the Reader object and what its iteration has yielded
  entry,      \* a NodeEntry, and what a round trip through a codec made of it
  dns,        \* the DNS bucket of the StatusDB
  indexer,    \* a NodeIndexer: its bucket of the StatusDB and its caches
  bucketStat, \* a NodeBucketStatus, and the virtual entry it last gave
  hist        \* history flags read by the properties

vars == <<ready, closed, closing, rotating, opening, stream, sid, ended,
          fileSize, filePath, timer, buffer, lockHeld, opens,
          rot, ucl, gzips, plain, gz, now, calls, rets, errs, budget, nodes, reader, entry, dns, indexer, bucketStat, hist>>

\* ------------------------------------------------------------------ helpers

RECURSIVE SumLen(_)
SumLen(s) == IF s = <<>> THEN 0 ELSE Head(s).len + SumLen(Tail(s))

\* utils.getFileSize: stat.size, or 0 when the file does not exist (ENOENT).
getFileSize(dir, ts) == IF ts \in DOMAIN dir THEN SumLen(dir[ts]) ELSE 0

\* A function without the key k.
Without(f, k) == [x \in (DOMAIN f) \ {k} |-> f[x]]

\* A function with f[k] set to v (k added when absent).
With(f, k, v) == [x \in (DOMAIN f) \cup {k} |-> IF x = k THEN v ELSE f[x]]

\* The sequence s without its i-th element.
RemoveAt(s, i) == SubSeq(s, 1, i - 1) \o SubSeq(s, i + 1, Len(s))

\* The sequence s with its i-th element replaced by e.
ReplaceAt(s, i, e) == [s EXCEPT ![i] = e]

\* ------------------------------------------------- the writer's own state

\* The fields write(), rotate() and openFile() read and assign, as a record,
\* so that one call can be followed through the calls it makes.
Cur ==
  [ready |-> ready, closed |-> closed, closing |-> closing,
   rotating |-> rotating, opening |-> opening, stream |-> stream,
   sid |-> sid, ended |-> ended, fileSize |-> fileSize,
   filePath |-> filePath, buffer |-> buffer, opens |-> opens,
   rot |-> rot, ucl |-> ucl, plain |-> plain, ret |-> FALSE]

\* All the fields of Cur take their values from the record w.
Assign(w) ==
  /\ ready' = w.ready
  /\ closed' = w.closed
  /\ closing' = w.closing
  /\ rotating' = w.rotating
  /\ opening' = w.opening
  /\ stream' = w.stream
  /\ sid' = w.sid
  /\ ended' = w.ended
  /\ fileSize' = w.fileSize
  /\ filePath' = w.filePath
  /\ buffer' = w.buffer
  /\ opens' = w.opens
  /\ rot' = w.rot
  /\ ucl' = w.ucl
  /\ plain' = w.plain

IdleRot == [pc |-> "idle", last |-> NoStream, target |-> 0]

IdleClose == [pc |-> "idle", target |-> 0]

\* stream.write(data) on the stream in this.stream: the bytes are appended to
\* the file unless the stream has been closed or its file has been unlinked.
streamWrite(w, d) ==
  IF ~w.ended /\ w.stream \in DOMAIN w.plain
    THEN With(w.plain, w.stream, Append(w.plain[w.stream], [id |-> d.id, len |-> d.len]))
    ELSE w.plain

\* utils.closeStream(stream) called on behalf of rotate(): it removes every
\* 'close' listener of the stream, so a close() of the owner waiting on the
\* same stream never resumes; on a stream already closed no 'close' event
\* comes and the promise never settles.
closeStreamPc(w) == IF w.ended THEN "hung" ELSE "close"

\* Writer.close(closeLock) up to its await, as called by rotate().
closeStart(w) ==
  [w EXCEPT !.closing = TRUE,
            !.rot = [pc |-> closeStreamPc(w), last |-> w.filePath, target |-> w.sid],
            !.ucl = IF w.ucl.pc = "stream" /\ w.ucl.target = w.sid
                      THEN [@ EXCEPT !.pc = "hung"] ELSE @]

\* Writer.rotate up to its first await.
rotate(w) ==
  IF w.rotating THEN w
  ELSE IF w.stream = NoStream \/ w.closed THEN w
  ELSE closeStart([w EXCEPT !.rotating = TRUE])

\* Writer.openFile up to its first await (getFileSize).
openFileStart(w, ts) ==
  [w EXCEPT !.opening = TRUE,
            !.opens = Append(@, [ts |-> ts, pc |-> "stat"])]

\* A write() that queues only while a segment is being opened.
QueuesWhileOpening(w) == w.opening

\* write() queues the data instead of writing it.
Queues(w) == w.rotating \/ w.opening

\* A write() that does not look at this.closing.
RefusesNothing(w) == FALSE

\* write() refuses the data: the stream is being closed.
Refuses(w) == w.closing

\* The size test that starts a rotation.
NeedsRotate(size) == size >= maxFileSize

\* Writer.write(data, ts); d = [id, len, ts, bare].  The return value is left
\* in the field ret.
write(w, d) ==
  IF ~w.ready THEN [w EXCEPT !.ret = FALSE]
  ELSE IF Queues(w) THEN [w EXCEPT !.buffer = Append(@, d), !.ret = TRUE]
  ELSE IF Refuses(w) THEN [w EXCEPT !.ret = FALSE]
  ELSE IF w.stream = NoStream
    THEN [openFileStart([w EXCEPT !.buffer = Append(@, d)], d.ts) EXCEPT !.ret = TRUE]
  ELSE LET w1 == [w EXCEPT !.plain = streamWrite(w, d), !.fileSize = @ + d.len]
           w2 == IF NeedsRotate(w1.fileSize) THEN rotate(w1) ELSE w1
       IN [w2 EXCEPT !.ret = TRUE]

\* The queue drain at the end of openFile.  A refused message is put back
\* without its timestamp (unshift(msg)); taking such an entry apart later
\* yields no buffer, write() throws on its assertions and the entry is gone.
RECURSIVE drain(_)
drain(w) ==
  IF Len(w.buffer) = 0 \/ w.rotating THEN w
  ELSE LET d == Head(w.buffer)
           w0 == [w EXCEPT !.buffer = Tail(@)]
       IN IF d.bare THEN w0
          ELSE LET w1 == write(w0, d)
               IN IF ~w1.ret
                    THEN [w1 EXCEPT !.buffer = <<[d EXCEPT !.bare = TRUE]>> \o @]
                    ELSE drain(w1)

\* A retry() that arms no timer.
retryUnarmed(t, ts) == t

\* Writer.retry(ts): one timer at a time.
retry(t, ts) == IF t # NoTimer THEN t ELSE ts

\* ------------------------------------------------------------ initial state

\* The null a file lookup returns.
NoFile == [time |-> NoStream, gzipped |-> FALSE]

\* null.
Null == NoStream

\* null in the place of a ConfigEntry.
NullConfig == [frequency |-> Null, interval |-> Null]

\* The NodesWriter fields after construction and after reset().
NoNodes == [lastTimestamp |-> Null, lastConfig |-> NullConfig]

\* _onClose: a hook of Writer that does nothing, overridden by NodesWriter
\* with reset().  A writer of JSON lines never leaves NoNodes.
onClose(n) == NoNodes

\* No NodeEntry at hand.
NoEntry == [pc |-> "none"]

\* The DNS bucket of a fresh StatusDB: no key is set.  threw tells that an
\* index() call was rejected, calls counts the calls made on the indexer;
\* stale holds the keys of the deprecated by-time indexes.  indexed counts
\* the index() calls that were written, per host, time and success, and
\* last is the entry of the latest call and whether it was written; op is
\* the cleanup call made, if any.
NoDNS == [UP_COUNT |-> <<>>, UP |-> {}, UP_COUNT_10 |-> <<>>,
          LAST_TIMESTAMP |-> <<>>, LAST_UP |-> <<>>, LAST_STATUS |-> <<>>,
          STATUS_10_BY_HOST |-> <<>>,
          STATUS_HOUR_BY_HOST |-> <<>>, UP_COUNT_HOUR |-> <<>>,
          STATUS_DAY_BY_HOST |-> <<>>, UP_COUNT_DAY |-> <<>>,
          stale |-> {}, indexed |-> <<>>, last |-> <<>>,
          threw |-> FALSE, calls |-> 0, op |-> <<>>]

\* new UpCounts(): nothing counted; version is the Map of the versions, in
\* the order the keys were inserted.
UpCounts == [total |-> 0, spv |-> 0, compacted |-> 0, pruned |-> 0,
             canSync |-> 0, version |-> <<>>]

\* new NodeBucketStatus(timeRange).
NodeBucketStatus == [up |-> 0] @@ UpCounts

\* A NodeBucketStatus at hand: adds counts the add() calls on it, threw
\* tells that one of them was rejected, virt is what getVirtualEntry last
\* returned.
NoStatus == [s |-> NodeBucketStatus, adds |-> 0, threw |-> FALSE, virt |-> <<>>]

\* The node bucket of a fresh StatusDB: no key is set.
NoNodeDB ==
  [LAST_TIMESTAMP |-> <<>>, PORT_MAPPINGS |-> {}, LAST_UP |-> <<>>,
   LAST_STATUS |-> <<>>, STATUS_10_BY_HOST |-> <<>>, UP |-> {},
   UP_COUNTS |-> <<>>, UP_COUNTS_10 |-> <<>>,
   STATUS_HOUR_BY_HOST |-> <<>>, UP_COUNTS_HOUR |-> <<>>,
   STATUS_DAY_BY_HOST |-> <<>>, UP_COUNTS_DAY |-> <<>>]

\* new NodeIndexer(sdb): the bucket and the empty caches; enabled stands
\* for cachesEnabled, hourlyCacheEnabled and dailyCacheEnabled, which are
\* true after construction and here set together.
NodeIndexer(enabled) ==
  [db |-> NoNodeDB,
   cachesEnabled |-> enabled, hourlyCacheEnabled |-> enabled,
   dailyCacheEnabled |-> enabled,
   lastUpCache |-> <<>>, upCounts |-> <<>>, isUpCache |-> <<>>,
   statusByHourByHostCache |-> <<>>, upCountsHourlyCache |-> <<>>,
   statusDayByHostCache |-> <<>>, upCountsDayCache |-> <<>>]

\* Two indexers given the same calls, one with its caches and one with all
\* caches disabled, each on a StatusDB of its own.  calls counts the
\* index() calls, last is the latest of them, threw tells that one of them
\* has thrown, op the cleanup call made, if any; counted holds, for the
\* calls made as the clock runs, the entry of each host that was last added
\* to UP_COUNTS and not taken off since.
NoIndexer ==
  [on |-> NodeIndexer(TRUE), off |-> NodeIndexer(FALSE),
   calls |-> 0, last |-> <<>>, threw |-> FALSE, op |-> <<>>,
   counted |-> <<>>]

\* A Reader after construction: no file, nothing read.  readdir and listing
\* keep the last directory enumeration and what getStoreFiles made of it,
\* startTS the argument of open(), pos the lines of the file consumed;
\* out and skipped record what the iteration has yielded and passed over.
NoReader == [pc |-> "new", readdir |-> <<>>, listing |-> <<>>, startTS |-> 0,
             lastReadTimestamp |-> 0, file |-> NoFile, pos |-> 0,
             out |-> <<>>, skipped |-> <<>>]

\* The directories a writer may find: empty, or with one segment of an
\* earlier session, plain and below maxFileSize.
OldSegment == <<[id |-> 0, len |-> 8]>>

NoFiles == [k \in {} |-> <<>>]

EmptyDir == [plain |-> NoFiles, gz |-> NoFiles]

ResumedDir == [plain |-> [k \in {OldTime} |-> OldSegment], gz |-> NoFiles]

\* Writer.constructor, in one of the directories dirs and with the budget b;
\* cs are the writes of the session that left the directory, all accepted.
Start(dirs, b, cs) ==
  /\ ready = FALSE
  /\ closed = FALSE
  /\ closing = FALSE
  /\ rotating = FALSE
  /\ opening = FALSE
  /\ stream = NoStream
  /\ sid = 0
  /\ ended = FALSE
  /\ fileSize = 0
  /\ filePath = NoStream
  /\ timer = NoTimer
  /\ buffer = <<>>
  /\ lockHeld = FALSE
  /\ opens = <<>>
  /\ rot = IdleRot
  /\ ucl = IdleClose
  /\ gzips = <<>>
  /\ \E d \in dirs : plain = d.plain /\ gz = d.gz
  /\ now = FirstTime
  /\ calls = cs
  /\ rets = [i \in 1..Len(cs) |-> TRUE]
  /\ errs = 0
  /\ budget = b
  /\ nodes = NoNodes
  /\ reader = NoReader
  /\ entry = NoEntry
  /\ dns = NoDNS
  /\ indexer = NoIndexer
  /\ bucketStat = NoStatus
  /\ hist = [opened |-> FALSE, first |-> NoStream, sealed |-> {},
             dir0 |-> plain, rotq |-> {}, errq |-> {}, refused |-> {},
             retrying |-> FALSE]

Init == Start({EmptyDir}, [writes |-> MaxWrites, errors |-> MaxErrors,
                          autoGzip |-> TRUE], <<>>)

\* ------------------------------------------------------------------ actions

\* The process is alive.  An AssertionError or a stream error out of close()
\* rejects the owner's promise, and the owners end the process on that
\* (process.exit(1) in the catch handlers of bin/logger and bin/generate-dns).
Running == ucl.pc \notin {"threw", "failed"}

\* LockFile.open and LockFile.close (lib/store/lockfile.js): the lock of the
\* prefix is taken by the one, released by the other.
lockFileOpen == TRUE

lockFileClose == FALSE

\* Writer.open: mkdirp, take the lockfile, this.ready = true.
Open ==
  /\ Running
  /\ ~hist.opened
  /\ ~lockHeld
  /\ lockHeld' = lockFileOpen
  /\ ready' = TRUE
  /\ hist' = [hist EXCEPT !.opened = TRUE]
  /\ UNCHANGED <<closed, closing, rotating, opening, stream, sid, ended,
                 fileSize, filePath, timer, buffer, opens, rot,
                 ucl, gzips, plain, gz, now, calls, rets, errs, budget, nodes, reader, entry, dns, indexer, bucketStat>>

\* The producer calls write(data, Date.now()) (bin/logger, writeData).
\* The wall clock does not run backwards between two calls.
Write ==
  /\ Running
  /\ Len(calls) < budget.writes
  /\ \E len \in DataLens, ts \in (IF calls = <<>> THEN {now} ELSE {now, now + 1}) :
       LET d == [id |-> Len(calls) + 1, len |-> len, ts |-> ts, bare |-> FALSE]
           w == write(Cur, d)
       IN /\ Assign(w)
          /\ now' = ts
          /\ calls' = Append(calls, [ts |-> ts, len |-> len])
          /\ rets' = Append(rets, w.ret)
          /\ hist' = [hist EXCEPT
                        !.rotq = IF ready /\ rotating THEN @ \cup {d.id} ELSE @,
                        !.errq = IF hist.retrying /\ ucl.pc = "idle"
                                   THEN @ \cup {d.id} ELSE @,
                        !.refused = IF ~w.ret
                                      THEN @ \cup {IF ready THEN "closing" ELSE "notready"}
                                      ELSE @]
  /\ UNCHANGED <<timer, lockHeld, gzips, gz, errs, budget, nodes, reader, entry, dns, indexer, bucketStat>>

\* openFile resumes after getFileSize: fileSize and filePath are assigned and
\* openWriteStream is called.
OpenStat ==
  /\ Running
  /\ \E i \in 1..Len(opens) :
       /\ opens[i].pc = "stat"
       /\ fileSize' = getFileSize(plain, opens[i].ts)
       /\ filePath' = opens[i].ts
       /\ opens' = ReplaceAt(opens, i, [opens[i] EXCEPT !.pc = "open"])
  /\ UNCHANGED <<ready, closed, closing, rotating, opening, stream, sid,
                 ended, timer, buffer, lockHeld, rot, ucl, gzips,
                 plain, gz, now, calls, rets, errs, budget, nodes, reader, entry, dns, indexer, bucketStat, hist>>

\* openFile resumes after openWriteStream (flags 'a' creates the file): the
\* stream is installed and the queue is drained.
OpenOk ==
  /\ Running
  /\ \E i \in 1..Len(opens) :
       /\ opens[i].pc = "open"
       /\ LET ts == opens[i].ts
              w0 == [Cur EXCEPT !.plain = IF ts \in DOMAIN @ THEN @ ELSE With(@, ts, <<>>),
                                !.stream = ts,
                                !.sid = @ + 1,
                                !.ended = FALSE,
                                !.opening = FALSE,
                                !.closed = FALSE,
                                !.opens = RemoveAt(@, i)]
          IN /\ Assign(drain(w0))
             /\ hist' = [hist EXCEPT !.first = IF @ = NoStream THEN ts ELSE @,
                                      !.retrying = FALSE]
  /\ UNCHANGED <<timer, lockHeld, gzips, gz, now, calls, rets, errs, budget, nodes, reader, entry, dns, indexer, bucketStat>>

\* openWriteStream rejects: retry(ts) and return; this.opening stays set.
OpenFail ==
  /\ Running
  /\ errs < budget.errors
  /\ \E i \in 1..Len(opens) :
       /\ opens[i].pc = "open"
       /\ timer' = retry(timer, opens[i].ts)
       /\ opens' = RemoveAt(opens, i)
  /\ errs' = errs + 1
  /\ UNCHANGED <<ready, closed, closing, rotating, opening, stream, sid,
                 ended, fileSize, filePath, buffer, lockHeld, rot, ucl,
                 gzips, plain, gz, now, calls, rets, budget, nodes, reader, entry, dns, indexer, bucketStat, hist>>

\* The retry timer fires: this.timer = null; this.openFile(ts).  Nothing
\* clears the timer, so it fires whatever has happened to the writer since.
TimerFire ==
  /\ Running
  /\ timer # NoTimer
  /\ timer' = NoTimer
  /\ Assign(openFileStart(Cur, timer))
  /\ UNCHANGED <<lockHeld, gzips, gz, now, calls, rets, errs, budget, nodes, reader, entry, dns, indexer, bucketStat, hist>>

\* The targets of the closeStream calls in flight: closeStream removed the
\* 'error' listeners of these streams.
CloseTargets ==
  (IF rot.pc # "idle" THEN {rot.target} ELSE {})
    \cup (IF ucl.pc \in {"stream", "hung"} THEN {ucl.target} ELSE {})

\* The stream emits 'error': Writer.handleError, which calls retry() without
\* a timestamp.
StreamError ==
  /\ Running
  /\ stream # NoStream
  /\ ~ended
  /\ sid \notin CloseTargets
  /\ errs < budget.errors
  /\ errs' = errs + 1
  /\ closed' = TRUE
  /\ stream' = NoStream
  /\ timer' = retry(timer, NaNTs)
  /\ hist' = [hist EXCEPT !.retrying = TRUE]
  /\ UNCHANGED <<ready, closing, rotating, opening, sid, ended, fileSize,
                 filePath, buffer, lockHeld, opens, rot, ucl,
                 gzips, plain, gz, now, calls, rets, budget, nodes, reader, entry, dns, indexer, bucketStat>>

\* A rotation that closes the way the owner does, with close(true).
RotateCloseLockDefault == TRUE

\* rotate() closes with close(false): the lockfile is left alone.
RotateCloseLock == FALSE

\* rotate resumes after close(false): the rest of close, this.rotating =
\* false, and gzip(last) up to its await.
RotateDone ==
  /\ Running
  /\ rot.pc = "close"
  /\ closing' = FALSE
  /\ lockHeld' = IF RotateCloseLock THEN lockFileClose ELSE lockHeld
  /\ ready' = IF RotateCloseLock THEN FALSE ELSE ready
  /\ stream' = NoStream
  /\ closed' = TRUE
  /\ rotating' = FALSE
  /\ rot' = IdleRot
  /\ gzips' = IF budget.autoGzip THEN Append(gzips, [file |-> rot.last, pc |-> "gzip"])
                          ELSE gzips
  /\ hist' = [hist EXCEPT !.sealed = @ \cup {rot.last}]
  /\ nodes' = onClose(nodes)
  /\ UNCHANGED <<opening, sid, ended, fileSize, filePath, timer, buffer,
                 opens, ucl, plain, gz, now, calls, rets, errs, budget, reader, entry, dns, indexer, bucketStat>>

\* The stream emits 'error' while rotate() awaits close(false): closeStream
\* rejects, close() resets this.closing on its way out, and rotate() ends
\* there, leaving this.rotating and this.stream as they are.
RotateCloseFail ==
  /\ Running
  /\ rot.pc = "close"
  /\ errs < budget.errors
  /\ errs' = errs + 1
  /\ closing' = FALSE
  /\ ended' = IF stream # NoStream /\ sid = rot.target THEN TRUE ELSE ended
  /\ rot' = [rot EXCEPT !.pc = "failed"]
  /\ UNCHANGED <<ready, closed, rotating, opening, stream, sid, fileSize,
                 filePath, timer, buffer, lockHeld, opens, ucl, gzips,
                 plain, gz, now, calls, rets, budget, nodes, reader, entry, dns, indexer, bucketStat, hist>>

\* utils.gzipFile: <file>.gz is created (truncated when it exists) and filled
\* from the file; when the file is missing nothing resolves the promise.
GzipFile ==
  /\ Running
  /\ \E i \in 1..Len(gzips) :
       /\ gzips[i].pc = "gzip"
       /\ LET f == gzips[i].file
          IN IF f \in DOMAIN plain
               THEN /\ gz' = With(gz, f, plain[f])
                    /\ gzips' = ReplaceAt(gzips, i, [gzips[i] EXCEPT !.pc = "remove"])
               ELSE /\ gz' = With(gz, f, <<>>)
                    /\ gzips' = RemoveAt(gzips, i)
  /\ UNCHANGED <<ready, closed, closing, rotating, opening, stream, sid,
                 ended, fileSize, filePath, timer, buffer, lockHeld,
                 opens, rot, ucl, plain, now, calls, rets, errs, budget, nodes, reader, entry, dns, indexer, bucketStat,
                 hist>>

\* gzip resumes after gzipFile: bfs.remove(file).
GzipRemove ==
  /\ Running
  /\ \E i \in 1..Len(gzips) :
       /\ gzips[i].pc = "remove"
       /\ plain' = Without(plain, gzips[i].file)
       /\ gzips' = RemoveAt(gzips, i)
  /\ UNCHANGED <<ready, closed, closing, rotating, opening, stream, sid,
                 ended, fileSize, filePath, timer, buffer, lockHeld,
                 opens, rot, ucl, gz, now, calls, rets, errs, budget, nodes, reader, entry, dns, indexer, bucketStat,
                 hist>>

\* The owner calls close(): the two assertions, this.closing = true and
\* closeStream(this.stream), which takes over the 'close' listener of a
\* rotation waiting on the same stream.
CloseBegin ==
  /\ Running
  /\ ready
  /\ ucl.pc = "idle"
  /\ IF closed \/ stream = NoStream
       THEN /\ ucl' = [pc |-> "threw", target |-> 0]
            /\ UNCHANGED <<closing, rot>>
       ELSE /\ closing' = TRUE
            /\ ucl' = [pc |-> IF ended THEN "hung" ELSE "stream", target |-> sid]
            /\ rot' = IF rot.pc = "close" /\ rot.target = sid
                        THEN [rot EXCEPT !.pc = "hung"] ELSE rot
  /\ UNCHANGED <<ready, closed, rotating, opening, stream, sid, ended,
                 fileSize, filePath, timer, buffer, lockHeld, opens, gzips,
                 plain, gz, now, calls, rets, errs, budget, nodes, reader, entry, dns, indexer, bucketStat, hist>>

\* close resumes after closeStream: _onClose, this.closing = false, and
\* lockFile.close() is called.
CloseStreamDone ==
  /\ ucl.pc = "stream"
  /\ closing' = FALSE
  /\ ended' = IF stream # NoStream /\ sid = ucl.target THEN TRUE ELSE ended
  /\ ucl' = [ucl EXCEPT !.pc = "lock"]
  /\ nodes' = onClose(nodes)
  /\ UNCHANGED <<ready, closed, rotating, opening, stream, sid, fileSize,
                 filePath, timer, buffer, lockHeld, opens, rot,
                 gzips, plain, gz, now, calls, rets, errs, budget, reader, entry, dns, indexer, bucketStat, hist>>

\* The stream emits 'error' while the owner's close() awaits closeStream:
\* this.closing is reset and close() rejects.
CloseFail ==
  /\ ucl.pc = "stream"
  /\ errs < budget.errors
  /\ errs' = errs + 1
  /\ closing' = FALSE
  /\ ended' = IF stream # NoStream /\ sid = ucl.target THEN TRUE ELSE ended
  /\ ucl' = [ucl EXCEPT !.pc = "failed"]
  /\ UNCHANGED <<ready, closed, rotating, opening, stream, sid, fileSize,
                 filePath, timer, buffer, lockHeld, opens, rot,
                 gzips, plain, gz, now, calls, rets, budget, nodes, reader, entry, dns, indexer, bucketStat, hist>>

\* close resumes after lockFile.close(): the lock is released,
\* this.ready = false, this.stream = null, this.closed = true.
CloseDone ==
  /\ ucl.pc = "lock"
  /\ lockHeld' = lockFileClose
  /\ ready' = FALSE
  /\ stream' = NoStream
  /\ closed' = TRUE
  /\ ucl' = [ucl EXCEPT !.pc = "done"]
  /\ UNCHANGED <<closing, rotating, opening, sid, ended, fileSize, filePath,
                 timer, buffer, opens, rot, gzips, plain, gz, now,
                 calls, rets, errs, budget, nodes, reader, entry, dns, indexer, bucketStat, hist>>

Next ==
  \/ Open
  \/ Write
  \/ OpenStat
  \/ OpenOk
  \/ OpenFail
  \/ TimerFire
  \/ StreamError
  \/ RotateDone
  \/ RotateCloseFail
  \/ GzipFile
  \/ GzipRemove
  \/ CloseBegin
  \/ CloseStreamDone
  \/ CloseFail
  \/ CloseDone

Spec == Init /\ [][Next]_vars

\* The writer of a later session: the directory holds the segment the
\* earlier session left.
InitResume == Start({ResumedDir}, [writes |-> MaxWrites, errors |-> MaxErrors,
                                  autoGzip |-> TRUE], <<>>)

SpecResume == InitResume /\ [][Next]_vars

\* The writer followed further: an empty directory, the larger budget, and
\* an owner that does not call close() within the run.
InitDeep == Start({EmptyDir}, [writes |-> DeepWrites, errors |-> DeepErrors,
                              autoGzip |-> TRUE], <<>>)

NextDeep ==
  \/ Open
  \/ Write
  \/ OpenStat
  \/ OpenOk
  \/ OpenFail
  \/ TimerFire
  \/ StreamError
  \/ RotateDone
  \/ RotateCloseFail
  \/ GzipFile
  \/ GzipRemove

SpecDeep == InitDeep /\ [][NextDeep]_vars

\* ------------------------------------------------------------ type invariant

TypeOK ==
  /\ ready \in BOOLEAN /\ closed \in BOOLEAN /\ closing \in BOOLEAN
  /\ rotating \in BOOLEAN /\ opening \in BOOLEAN /\ ended \in BOOLEAN
  /\ stream \in FileKeys \cup {NoStream}
  /\ filePath \in FileKeys \cup {NoStream}
  /\ timer \in FileKeys \cup {NoTimer}
  /\ fileSize \in Nat
  /\ DOMAIN plain \subseteq FileKeys
  /\ DOMAIN gz \subseteq FileKeys
  /\ Len(calls) = Len(rets)


\* ------------------------------------------------------------------ the reader

MathMax(a, b) == IF a >= b THEN a ELSE b

MathMin(a, b) == IF a <= b THEN a ELSE b

\* A finite set of numbers as an ascending sequence.
RECURSIVE AscendingSeq(_)
AscendingSeq(S) ==
  IF S = {} THEN <<>>
  ELSE LET m == CHOOSE x \in S : \A y \in S : x <= y
       IN <<m>> \o AscendingSeq(S \ {m})

\* jsoncommon.FILE_REGEX: event-<digits>.json with an optional .gz.  The name
\* event-NaN.json has no digits and does not match.
MatchesRegex(ts) == ts # NaNTs

\* The entries of a directory: one per file, plain or gzipped.
DirEntries(pl, gzd) ==
  {[time |-> k, gzipped |-> FALSE] : k \in DOMAIN pl}
    \cup {[time |-> k, gzipped |-> TRUE] : k \in DOMAIN gzd}

\* The enumeration that goes by name: for timestamps of one width, ascending
\* by time with event-<ts>.json before event-<ts>.json.gz.
RECURSIVE byName(_, _, _)
byName(ts, pl, gzd) ==
  IF ts = <<>> THEN <<>>
  ELSE (IF Head(ts) \in DOMAIN pl
          THEN <<[time |-> Head(ts), gzipped |-> FALSE]>> ELSE <<>>)
       \o (IF Head(ts) \in DOMAIN gzd
          THEN <<[time |-> Head(ts), gzipped |-> TRUE]>> ELSE <<>>)
       \o byName(Tail(ts), pl, gzd)

\* A Map in which the file enumerated last replaces the one held.
lastWins(prev, storeFile) == TRUE

\* Whether a file replaces the one the Map holds for its time: only a gzipped
\* file replaces a plain one.
gzipWins(prev, storeFile) == ~prev.gzipped /\ storeFile.gzipped

\* The Map filesByTime of getStoreFiles, kept as the sequence of its values
\* in insertion order: a new time is appended, a set() on a time the Map
\* already holds keeps its place.
RECURSIVE filesByTime(_, _)
filesByTime(files, map) ==
  IF files = <<>> THEN map
  ELSE LET storeFile == Head(files)
           has == {i \in 1..Len(map) : map[i].time = storeFile.time}
       IN IF ~MatchesRegex(storeFile.time)
            THEN filesByTime(Tail(files), map)
          ELSE IF has # {}
            THEN LET i == CHOOSE i \in has : TRUE
                 IN IF gzipWins(map[i], storeFile)
                      THEN filesByTime(Tail(files),
                                       [map EXCEPT ![i] = storeFile])
                      ELSE filesByTime(Tail(files), map)
          ELSE filesByTime(Tail(files), Append(map, storeFile))

\* What getStoreFiles returns for an enumeration: the values of the Map in
\* insertion order.  The sort that follows the loop is applied to the array
\* of names readdir returned, not to this one.
matchedFiles(files) == filesByTime(files, <<>>)

\* common.getStoreFiles on a directory whose enumeration goes by name.
getStoreFiles(pl, gzd) ==
  matchedFiles(byName(AscendingSeq((DOMAIN pl) \cup (DOMAIN gzd)), pl, gzd))

\* utils.binarySearchFiles with compare = a.time - b.time; positions count
\* from 0 as in the code.
RECURSIVE binarySearchLoop(_, _, _, _, _)
binarySearchLoop(items, key, start, end, next) ==
  IF start > end
    THEN IF next THEN MathMax(start, end) ELSE MathMin(start, end)
    ELSE LET pos == (start + end) \div 2
             cmp == items[pos + 1].time - key
         IN IF cmp = 0 THEN pos
            ELSE IF cmp < 0 THEN binarySearchLoop(items, key, pos + 1, end, next)
            ELSE binarySearchLoop(items, key, start, pos - 1, next)

binarySearchFiles(items, key, next) ==
  binarySearchLoop(items, key, 0, Len(items) - 1, next)

\* Reader.getStartFile.
getStartFile(files, startTS) ==
  IF Len(files) = 0 THEN NoFile
  ELSE LET index == binarySearchFiles(files, startTS, FALSE)
       IN files[(IF index < 0 THEN 0 ELSE index) + 1]

\* Reader.getNextFile.
getNextFile(files, startTS) ==
  IF Len(files) = 0 THEN NoFile
  ELSE LET index == binarySearchFiles(files, startTS, TRUE)
       IN IF index > Len(files) - 1 THEN NoFile ELSE files[index + 1]

\* logTimestamp of a stored record: the producer writes the timestamp it
\* passes to write() into the record (writeData).
logTimestamp(id) == IF id = 0 THEN OldTime ELSE calls[id].ts

\* The lines of a segment file as the reader's stream delivers them.
Lines(file) == IF file.gzipped THEN gz[file.time] ELSE plain[file.time]

\* JSONReader iteration over one file: records older than
\* lastReadTimestamp are skipped, the others yielded.
RECURSIVE readLines(_, _, _)
readLines(lines, lastReadTimestamp, out) ==
  IF lines = <<>> THEN [last |-> lastReadTimestamp, out |-> out]
  ELSE IF logTimestamp(Head(lines).id) < lastReadTimestamp
    THEN readLines(Tail(lines), lastReadTimestamp, out)
  ELSE readLines(Tail(lines), logTimestamp(Head(lines).id),
                 Append(out, Head(lines).id))

\* JSONReader iteration with Reader.openNextFile at the end of each file;
\* left counts the files the listing still allows to be opened.
RECURSIVE iterate(_, _, _, _, _)
iterate(files, file, lastReadTimestamp, out, left) ==
  LET r == readLines(Lines(file), lastReadTimestamp, out)
      nextFile == getNextFile(files, r.last)
  IN IF nextFile # NoFile /\ nextFile # file /\ left > 0
       THEN iterate(files, nextFile, r.last, r.out, left - 1)
       ELSE r.out

\* reader.open(startTS) and the iteration to its end, on the directory as it
\* stands: the ids of the records yielded.
ReaderYield(startTS) ==
  LET files == getStoreFiles(plain, gz)
      file == getStartFile(files, startTS)
  IN IF file = NoFile THEN <<>>
     ELSE iterate(files, file, startTS, <<>>, Len(files))

\* ------------------------------------------------------- the NodesWriter

\* nodesreader.YEARS_20_MS, 631152000000 in the code.  Time is scaled: the
\* clock of the model starts right above it, as every real timestamp lies
\* above twenty years, and LongGap is the longest gap that stays below it.
YEARS_20_MS == FirstTime - 1

LongGap == YEARS_20_MS - 1

\* The {frequency, interval} an entry carries.
Configs == {[frequency |-> 1, interval |-> 1], [frequency |-> 2, interval |-> 1]}

\* writeEntry: the time written, absolute after a reset, else the increment.
writeTime(lastTimestamp, timestamp) ==
  IF lastTimestamp # Null THEN timestamp - lastTimestamp ELSE timestamp

InitNodes == Start({EmptyDir}, [writes |-> 2 * MaxLogs, errors |-> 0,
                                autoGzip |-> TRUE], <<>>)

\* NodesWriter.writeLog(timestamp, entry): writeConfig when lastConfig is
\* null, then writeEntry; each renders a packet and hands it to write().
\* The packets are kept in calls with their type and contents.
WriteLog ==
  /\ Running
  /\ Cardinality({i \in 1..Len(calls) : calls[i].type = "ENTRY"}) < MaxLogs
  /\ \E len \in DataLens, config \in Configs,
        timestamp \in (IF calls = <<>> THEN {now} ELSE {now, now + 1, now + LongGap}) :
       LET withConfig == nodes.lastConfig = NullConfig
           packet0 == [ts |-> timestamp, len |-> len, type |-> "CONFIG",
                       time |-> 0, config |-> config]
           packet1 == [ts |-> timestamp, len |-> len, type |-> "ENTRY",
                       time |-> writeTime(nodes.lastTimestamp, timestamp),
                       config |-> config]
           id0 == Len(calls) + 1
           id1 == IF withConfig THEN id0 + 1 ELSE id0
           w0 == IF withConfig
                   THEN write(Cur, [id |-> id0, len |-> len, ts |-> timestamp,
                                    bare |-> FALSE])
                   ELSE Cur
           w1 == write(w0, [id |-> id1, len |-> len, ts |-> timestamp,
                            bare |-> FALSE])
       IN /\ Assign(w1)
          /\ now' = timestamp
          /\ calls' = calls \o (IF withConfig THEN <<packet0>> ELSE <<>>)
                            \o <<packet1>>
          /\ rets' = rets \o (IF withConfig THEN <<w0.ret>> ELSE <<>>)
                          \o <<w1.ret>>
          /\ nodes' = [lastTimestamp |-> timestamp,
                       lastConfig |-> IF withConfig THEN config
                                      ELSE nodes.lastConfig]
          /\ hist' = [hist EXCEPT
                        !.rotq = IF ready /\ rotating
                                   THEN @ \cup (id0..id1) ELSE @]
  /\ UNCHANGED <<timer, lockHeld, gzips, gz, errs, budget, reader, entry, dns, indexer, bucketStat>>

\* The NodesWriter at work, its streams free of errors.
NextNodes ==
  \/ Open
  \/ WriteLog
  \/ OpenStat
  \/ OpenOk
  \/ RotateDone
  \/ GzipFile
  \/ GzipRemove
  \/ CloseBegin
  \/ CloseStreamDone
  \/ CloseDone

SpecNodes == InitNodes /\ [][NextNodes]_vars

\* The packets of the segment files in the order a reader meets them:
\* segment after segment by timestamp, the gzipped file when there is one.
RECURSIVE PacketsOf(_)
PacketsOf(ts) ==
  IF ts = <<>> THEN <<>>
  ELSE (IF Head(ts) \in DOMAIN gz THEN gz[Head(ts)] ELSE plain[Head(ts)])
       \o PacketsOf(Tail(ts))

DiskPackets == PacketsOf(AscendingSeq((DOMAIN plain) \cup (DOMAIN gz)))

\* The reader's test on the time of an ENTRY packet.
isAbsolute(time) == time > YEARS_20_MS

\* The ENTRY case of the binary reader over a run of packets: the
\* logTimestamps it yields, lastTimestamp carried from packet to packet.
RECURSIVE readEntries(_, _)
readEntries(packets, lastTimestamp) ==
  IF packets = <<>> THEN <<>>
  ELSE LET p == calls[Head(packets).id]
       IN IF p.type = "CONFIG" THEN readEntries(Tail(packets), lastTimestamp)
          ELSE LET t == IF isAbsolute(p.time) THEN p.time
                        ELSE lastTimestamp + p.time
               IN <<t>> \o readEntries(Tail(packets), t)

\* ------------------------------------------------- listing a directory

\* The variables of the writer and its directory.
writerVars == <<ready, closed, closing, rotating, opening, stream, sid, ended,
                fileSize, filePath, timer, buffer, lockHeld, opens, rot, ucl,
                gzips, plain, gz, now, calls, rets, errs, budget, nodes, hist>>

NoBudget == [writes |-> 0, errors |-> 0, autoGzip |-> TRUE]

ListTimes == FirstTime..(FirstTime + MaxSegs - 1)

\* The permutations of a finite set, as sequences.
RECURSIVE Perms(_)
Perms(S) ==
  IF S = {} THEN {<<>>}
  ELSE UNION {{<<x>> \o q : q \in Perms(S \ {x})} : x \in S}

\* Directories with any of the files event-<ts>.json and event-<ts>.json.gz
\* for the timestamps of ListTimes, and possibly event-NaN.json.
ListDirs ==
  {[plain |-> [k \in P |-> <<>>], gz |-> [k \in G |-> <<>>]] :
     P \in SUBSET (ListTimes \cup {NaNTs}), G \in SUBSET ListTimes}

InitList == Start(ListDirs, NoBudget, <<>>)

\* getStoreFiles(prefix, options) on the directory, enumerated in any order.
List ==
  /\ reader.pc = "new"
  /\ \E files \in Perms(DirEntries(plain, gz)) :
       reader' = [reader EXCEPT !.pc = "listed", !.readdir = files,
                                !.listing = matchedFiles(files)]
  /\ UNCHANGED <<writerVars, entry, dns, indexer, bucketStat>>

NextList == List

SpecList == InitList /\ [][NextList]_vars

\* ---------------------------------------------- looking up a segment

\* The timestamps looked up: 0, and those around the segments' timestamps.
SearchKeys == {0} \cup ((FirstTime - 1)..(FirstTime + MaxSegs))

InitSearch == Start(ListDirs, NoBudget, <<>>)

\* Reader.getStartFile(startTS) on the listing of the directory.
GetStartFile ==
  /\ reader.pc = "new"
  /\ \E startTS \in SearchKeys :
       LET files == getStoreFiles(plain, gz)
       IN reader' = [reader EXCEPT !.pc = "start", !.listing = files,
                                   !.lastReadTimestamp = startTS,
                                   !.file = getStartFile(files, startTS)]
  /\ UNCHANGED <<writerVars, entry, dns, indexer, bucketStat>>

\* Reader.getNextFile(startTS) on the listing of the directory.
GetNextFile ==
  /\ reader.pc = "new"
  /\ \E startTS \in SearchKeys :
       LET files == getStoreFiles(plain, gz)
       IN reader' = [reader EXCEPT !.pc = "next", !.listing = files,
                                   !.lastReadTimestamp = startTS,
                                   !.file = getNextFile(files, startTS)]
  /\ UNCHANGED <<writerVars, entry, dns, indexer, bucketStat>>

NextSearch == GetStartFile \/ GetNextFile

SpecSearch == InitSearch /\ [][NextSearch]_vars

\* ------------------------------------------------- reading a directory

\* The timestamps of the records read.
RecTimes == FirstTime..(FirstTime + MaxSegs)

\* The sessions that left the directories read: up to MaxRecs writes with
\* non-decreasing timestamps, as Date.now() gives them.
Sessions ==
  UNION {{cs \in [1..n -> [ts : RecTimes, len : DataLens]] :
            \A i \in 1..(n - 1) : cs[i].ts <= cs[i + 1].ts} : n \in 0..MaxRecs}

\* The ways a session is cut into segments: the writes that opened a file,
\* the first among them; a segment has the timestamp of the write that opened
\* it, and the names differ.
Cuts(cs) ==
  {S \in SUBSET (1..Len(cs)) :
     /\ Len(cs) > 0 => 1 \in S
     /\ \A i, j \in S : i < j => cs[i].ts < cs[j].ts}

\* The records of the segment that write i opened.
RECURSIVE SegmentOf(_, _, _)
SegmentOf(cs, S, i) ==
  <<[id |-> i, len |-> cs[i].len]>>
    \o (IF i + 1 > Len(cs) \/ (i + 1) \in S THEN <<>>
        ELSE SegmentOf(cs, S, i + 1))

\* The directories a session leaves: each segment plain or gzipped.
DirsOf(cs) ==
  UNION {{[plain |-> [k \in {cs[i].ts : i \in S \ G}
                        |-> SegmentOf(cs, S, CHOOSE i \in S : cs[i].ts = k)],
           gz |-> [k \in {cs[i].ts : i \in G}
                        |-> SegmentOf(cs, S, CHOOSE i \in S : cs[i].ts = k)]] :
            G \in SUBSET S} : S \in Cuts(cs)}

InitReader == \E cs \in Sessions : Start(DirsOf(cs), NoBudget, cs)

\* The test of the JSON reader on a record read, with equal timestamps
\* skipped as well.
skipsEqual(ts, lastReadTimestamp) == ts <= lastReadTimestamp

\* The test of the JSON reader on a record read.
skips(ts, lastReadTimestamp) == ts < lastReadTimestamp

\* Reader.open(startTS); openFile(null) fails its assertion.
ReaderOpen ==
  /\ reader.pc = "new"
  /\ \E startTS \in {0} \cup RecTimes :
       LET files == getStoreFiles(plain, gz)
           startFile == getStartFile(files, startTS)
       IN reader' = [reader EXCEPT
            !.pc = IF startFile = NoFile THEN "threw" ELSE "reading",
            !.listing = files, !.startTS = startTS,
            !.lastReadTimestamp = startTS, !.file = startFile, !.pos = 0]
  /\ UNCHANGED <<writerVars, entry, dns, indexer, bucketStat>>

\* One turn of the loop over the lines of the open file.
ReadLine ==
  /\ reader.pc = "reading"
  /\ reader.pos < Len(Lines(reader.file))
  /\ LET json == Lines(reader.file)[reader.pos + 1]
     IN IF skips(logTimestamp(json.id), reader.lastReadTimestamp)
          THEN reader' = [reader EXCEPT !.pos = @ + 1,
                                        !.skipped = Append(@, json.id)]
          ELSE reader' = [reader EXCEPT !.pos = @ + 1,
                                        !.lastReadTimestamp = logTimestamp(json.id),
                                        !.out = Append(@, json.id)]
  /\ UNCHANGED <<writerVars, entry, dns, indexer, bucketStat>>

\* Reader.openNextFile at the end of the file, and the end of the iteration
\* when it returns false.
OpenNextFile ==
  /\ reader.pc = "reading"
  /\ reader.pos = Len(Lines(reader.file))
  /\ LET files == getStoreFiles(plain, gz)
         nextFile == getNextFile(files, reader.lastReadTimestamp)
     IN IF nextFile # NoFile /\ nextFile # reader.file
          THEN reader' = [reader EXCEPT !.listing = files, !.file = nextFile,
                                        !.pos = 0]
          ELSE reader' = [reader EXCEPT !.listing = files, !.pc = "ended"]
  /\ UNCHANGED <<writerVars, entry, dns, indexer, bucketStat>>

NextReader == ReaderOpen \/ ReadLine \/ OpenNextFile

SpecReader == InitReader /\ [][NextReader]_vars

\* --------------------------------------------- the driver of the indexer

\* DNSIndexer.getLastTimestamp: the pointer to the log, plus one.
getLastTimestamp(db) ==
  IF db.LAST_TIMESTAMP = <<>> THEN 0 ELSE db.LAST_TIMESTAMP[1] + 1

\* The reader after open(startTS) on the directory as it stands.
opened(startTS) ==
  LET files == getStoreFiles(plain, gz)
      startFile == getStartFile(files, startTS)
  IN [NoReader EXCEPT
        !.pc = IF startFile = NoFile THEN "threw" ELSE "reading",
        !.listing = files, !.startTS = startTS,
        !.lastReadTimestamp = startTS, !.file = startFile]

\* The driver starts: dnsReader.open(await dnsIndexer.getLastTimestamp()).
\* run counts the processes; indexed holds the records of this run that
\* index() has committed, before those of the earlier run.
DriverOpen ==
  /\ reader.pc = "new"
  /\ reader' = opened(getLastTimestamp(dns))
                  @@ [run |-> 1, indexed |-> <<>>, before |-> {}]
  /\ UNCHANGED <<writerVars, entry, dns, indexer, bucketStat>>

\* The iterator is asked for the next record, once the one before it has
\* been indexed.
DriverRead ==
  /\ "run" \in DOMAIN reader
  /\ reader.indexed = reader.out
  /\ ReadLine

\* await sdb.indexDNS(entry): the batch that holds LAST_TIMESTAMP is
\* written.
DriverIndex ==
  /\ "run" \in DOMAIN reader
  /\ reader.pc = "reading"
  /\ reader.indexed # reader.out
  /\ dns' = [dns EXCEPT
               !.LAST_TIMESTAMP = <<logTimestamp(reader.out[Len(reader.out)])>>]
  /\ reader' = [reader EXCEPT !.indexed = reader.out]
  /\ UNCHANGED <<writerVars, entry, indexer, bucketStat>>

\* The end of a file is met by the iterator.
DriverNextFile ==
  /\ "run" \in DOMAIN reader
  /\ reader.indexed = reader.out
  /\ OpenNextFile

\* The process stops, at any point of its loop, and is started again.
DriverRestart ==
  /\ "run" \in DOMAIN reader
  /\ reader.run = 1
  /\ reader.pc \in {"reading", "ended"}
  /\ reader' = opened(getLastTimestamp(dns))
                  @@ [run |-> 2, indexed |-> <<>>,
                      before |-> {reader.indexed[i] : i \in 1..Len(reader.indexed)}]
  /\ UNCHANGED <<writerVars, entry, dns, indexer, bucketStat>>

NextDriver ==
  DriverOpen \/ DriverRead \/ DriverIndex \/ DriverNextFile \/ DriverRestart

SpecDriver == InitReader /\ [][NextDriver]_vars

\* ------------------------------------------- the JSON reader, as text

\* JSON.stringify of a record, which the writer follows with '\n': the
\* text in pieces, the digits of logTimestamp one of them.
stringify(ts) == <<"{", ToString(ts), "}">>

\* The timestamps of the records in the texts read.
TextTimes == FirstTime..(FirstTime + 5)

\* JSON.parse: the logTimestamp of the record, as <<ts>>, or <<>> for the
\* SyntaxError that any text but a whole record raises.
parse(data) ==
  IF Len(data) = 3 /\ data[1] = "{" /\ data[3] = "}"
       /\ \E ts \in TextTimes : ToString(ts) = data[2]
    THEN <<CHOOSE ts \in TextTimes : ToString(ts) = data[2]>>
  ELSE <<>>

\* The pieces of the record that was being written when the process
\* stopped, or that the writer has flushed so far.
MaxCut == 3

\* A segment of two records, and the start of a third.
TextOf(ts, cut) ==
  stringify(ts) \o <<"\n">> \o stringify(ts + 1) \o <<"\n">>
    \o SubSeq(stringify(ts + 2) \o <<"\n">>, 1, cut)

\* Directories of JSON segments: a first segment whose last line may be
\* partial, and possibly a successor.
TextDirs ==
  {[plain |-> [k \in {FirstTime} \cup later |->
                 IF k = FirstTime THEN TextOf(k, cut)
                 ELSE TextOf(k, 0)],
    gz |-> NoFiles] :
     cut \in 0..MaxCut, later \in {{}, {FirstTime + 3}}}

InitText == Start(TextDirs, NoBudget, <<>>)

\* The length of the line that starts after pos: up to the next '\n' or to
\* the end of the input, where readline emits what is left as a line.
RECURSIVE lineLength(_, _)
lineLength(text, pos) ==
  IF pos >= Len(text) \/ text[pos + 1] = "\n" THEN 0
  ELSE 1 + lineLength(text, pos + 1)

\* One turn of for await (const data of rl): the line is parsed, and the
\* record skipped or yielded.
TextLine ==
  /\ reader.pc = "reading"
  /\ reader.pos < Len(Lines(reader.file))
  /\ LET text == Lines(reader.file)
         n == lineLength(text, reader.pos)
         data == SubSeq(text, reader.pos + 1, reader.pos + n)
         json == parse(data)
         rest == IF reader.pos + n < Len(text) THEN reader.pos + n + 1
                 ELSE Len(text)
     IN IF json = <<>>
          THEN reader' = [reader EXCEPT !.pc = "threw"]
        ELSE IF skips(json[1], reader.lastReadTimestamp)
          THEN reader' = [reader EXCEPT !.pos = rest,
                                        !.skipped = Append(@, json[1])]
          ELSE reader' = [reader EXCEPT !.pos = rest,
                                        !.lastReadTimestamp = json[1],
                                        !.out = Append(@, json[1])]
  /\ UNCHANGED <<writerVars, entry, dns, indexer, bucketStat>>

NextText == ReaderOpen \/ TextLine \/ OpenNextFile

SpecText == InitText /\ [][NextText]_vars

\* ------------------------------------------------------ the binary reader

\* PacketTypes.
CONFIG == 0

ENTRY == 1

\* The bytes of a CONFIG packet: the type, then frequency and interval as
\* uint64, the least significant byte first.
ConfigBytes(frequency, interval) ==
  <<CONFIG, frequency, 0, 0, 0, 0, 0, 0, 0, interval, 0, 0, 0, 0, 0, 0, 0>>

\* The bytes of an ENTRY packet: the type, the size as uint16 (the least
\* significant byte first), and size bytes: the time, a varint that is held
\* in one place here, and the rest of the entry.
EntryBytes(time) == <<ENTRY, 3, 0, time, 0, 0>>

\* A segment as the NodesWriter leaves it: the config, an entry with its
\* absolute time and one with the increment.
SegmentBytes(ts) ==
  ConfigBytes(1, 2) \o EntryBytes(ts) \o EntryBytes(1)

\* The bytes of a further entry that reached the file before a crash.
MaxTail == 5

Tails == {SubSeq(EntryBytes(1), 1, n) : n \in 0..MaxTail}

\* Directories of binary segments: a first segment, complete or with a
\* truncated record at its end, and possibly a successor.
BinDirs ==
  {[plain |-> [k \in {FirstTime} \cup later |->
                 IF k = FirstTime THEN SegmentBytes(k) \o tail
                 ELSE SegmentBytes(k)],
    gz |-> NoFiles] :
     tail \in Tails, later \in {{}, {FirstTime + 3}}}

\* The timestamps given to open().
BinSince == {0} \cup (FirstTime..(FirstTime + 3))

\* Buffer.slice(start).
sliceFrom(buf, start) == SubSeq(buf, start + 1, Len(buf))

\* The loop over the packets of buf = left + data from offset on.  st holds
\* left, lastTimestamp, the logTimestamps yielded, and whether an unknown
\* packet type has thrown.
RECURSIVE readChunk(_, _, _)
readChunk(buf, offset, st) ==
  IF Len(buf) - offset <= 0 THEN st
  ELSE LET type == buf[offset + 1]
           avail == Len(buf) - offset - 1
           reset == [st EXCEPT !.left = sliceFrom(buf, offset)]
       IN IF type = CONFIG
            THEN IF avail < 16 THEN reset
                 ELSE readChunk(buf, offset + 17,
                                [st EXCEPT !.left = sliceFrom(@, offset + 17)])
          ELSE IF type = ENTRY
            THEN IF avail < 2 THEN reset
                 ELSE LET size == buf[offset + 2] + 256 * buf[offset + 3]
                      IN IF avail - 2 < size THEN reset
                         ELSE LET time == buf[offset + 4]
                                  ts == IF isAbsolute(time) THEN time
                                        ELSE st.lastTimestamp + time
                              IN readChunk(buf, offset + 3 + size,
                                   [st EXCEPT
                                      !.lastTimestamp = ts,
                                      !.out = Append(@, ts),
                                      !.left = sliceFrom(@, offset + 3 + size)])
          ELSE [st EXCEPT !.threw = TRUE]

InitBin == Start(BinDirs, NoBudget, <<>>)

\* Reader.open(startTS) of the binary reader, and the start of its
\* iteration.
BinOpen ==
  /\ reader.pc = "new"
  /\ \E startTS \in BinSince :
       LET files == getStoreFiles(plain, gz)
           startFile == getStartFile(files, startTS)
       IN reader' = [pc |-> IF startFile = NoFile THEN "threw" ELSE "reading",
                     readdir |-> <<>>, listing |-> files, startTS |-> startTS,
                     lastReadTimestamp |-> startTS, file |-> startFile,
                     pos |-> 0, out |-> <<>>, skipped |-> <<>>,
                     left |-> <<>>, lastTimestamp |-> 0]
  /\ UNCHANGED <<writerVars, entry, dns, indexer, bucketStat>>

\* One chunk of the stream, of any length, worked through.
BinData ==
  /\ reader.pc = "reading"
  /\ reader.pos < Len(Lines(reader.file))
  /\ \E n \in 1..(Len(Lines(reader.file)) - reader.pos) :
       LET data == SubSeq(Lines(reader.file), reader.pos + 1, reader.pos + n)
           r == readChunk(reader.left \o data, 0,
                          [left |-> reader.left,
                           lastTimestamp |-> reader.lastTimestamp,
                           out |-> reader.out, threw |-> FALSE])
       IN reader' = [reader EXCEPT
            !.pc = IF r.threw THEN "threw" ELSE @,
            !.pos = @ + n, !.left = r.left,
            !.lastTimestamp = r.lastTimestamp, !.out = r.out]
  /\ UNCHANGED <<writerVars, entry, dns, indexer, bucketStat>>

\* The end of the stream: assert(left.length === 0), then openNextFile,
\* and the end of the iteration when it returns false.
BinEnd ==
  /\ reader.pc = "reading"
  /\ reader.pos = Len(Lines(reader.file))
  /\ IF reader.left # <<>>
       THEN reader' = [reader EXCEPT !.pc = "threw"]
       ELSE LET files == getStoreFiles(plain, gz)
                nextFile == getNextFile(files, reader.lastTimestamp)
            IN IF nextFile # NoFile /\ nextFile # reader.file
                 THEN reader' = [reader EXCEPT
                        !.listing = files, !.file = nextFile, !.pos = 0,
                        !.lastReadTimestamp = reader.lastTimestamp]
                 ELSE reader' = [reader EXCEPT
                        !.listing = files, !.pc = "ended",
                        !.lastReadTimestamp = reader.lastTimestamp]
  /\ UNCHANGED <<writerVars, entry, dns, indexer, bucketStat>>

NextBin == BinOpen \/ BinData \/ BinEnd

SpecBin == InitBin /\ [][NextBin]_vars

\* ------------------------------------------------------------ NodeEntry

\* A value that may be null: <<>> for null, <<v>> for the value v.
Truthy(s) == s # <<>> /\ s[1] # ""

\* NodeDetails as far as the entry's codecs go: written and read field by
\* field, carried whole here.
Details == {[height |-> 0, noRelay |-> FALSE], [height |-> 1, noRelay |-> TRUE]}

\* The valid entries: successful, failed (the empty error string included),
\* or neither.
NodeEntries ==
  {e \in [logTimestamp : {FirstTime}, time : {FirstTime - 1, FirstTime},
          host : {"1.2.3.4", "::1"}, port : {0, 65535}, brontide : BOOLEAN,
          error : {<<>>, <<"">>, <<"ECONNREFUSED">>},
          result : {<<>>} \cup {<<d>> : d \in Details},
          frequency : {1}, interval : {2}] :
     e.error = <<>> \/ e.result = <<>>}

\* NodeEntry.rawHostAndPort: the 16 bytes of the address and the port.
rawHostAndPort(e) == <<[raw |-> e.host], e.port>>

\* The flags byte of NodeEntry.write.
entryFlags(e) ==
  (IF e.brontide THEN 1 ELSE 0) + (IF Truthy(e.error) THEN 2 ELSE 0)
    + (IF e.result # <<>> THEN 4 ELSE 0)

\* NodeEntry.write: the fields in the order they are written.
entryWrite(e) ==
  <<e.logTimestamp, e.time, rawHostAndPort(e), entryFlags(e)>>
    \o (IF Truthy(e.error) THEN <<e.error[1]>> ELSE <<>>)
    \o (IF e.result # <<>> THEN <<e.result[1]>> ELSE <<>>)
    \o <<e.frequency, e.interval>>

\* NodeEntry.read on a new NodeEntry, whose error and result are null.
entryRead(br) ==
  LET flags == br[4]
      hasError == (flags \div 2) % 2 = 1
      hasResult == (flags \div 4) % 2 = 1
      pr == IF hasError THEN 6 ELSE 5
      pf == IF hasResult THEN pr + 1 ELSE pr
  IN [logTimestamp |-> br[1], time |-> br[2],
      host |-> br[3][1].raw, port |-> br[3][2],
      brontide |-> flags % 2 = 1,
      error |-> IF hasError THEN <<br[5]>> ELSE <<>>,
      result |-> IF hasResult THEN <<br[pr]>> ELSE <<>>,
      frequency |-> br[pf], interval |-> br[pf + 1]]

\* NodeEntry.toJSON; result is undefined for an entry without one.
entryToJSON(e) ==
  [logTimestamp |-> e.logTimestamp,
   info |-> [time |-> e.time, host |-> e.host, port |-> e.port,
             brontide |-> e.brontide, error |-> e.error,
             result |-> e.result,
             frequency |-> e.frequency, interval |-> e.interval]]

\* NodeEntry.fromJSON on a new NodeEntry.
entryFromJSON(json) ==
  [logTimestamp |-> json.logTimestamp, time |-> json.info.time,
   host |-> json.info.host, port |-> json.info.port,
   brontide |-> json.info.brontide, error |-> json.info.error,
   result |-> IF json.info.result # <<>> THEN json.info.result ELSE <<>>,
   frequency |-> json.info.frequency, interval |-> json.info.interval]

InitEntry == Start({EmptyDir}, NoBudget, <<>>)

\* An entry is made: any of the valid ones.
NewEntry ==
  /\ entry.pc = "none"
  /\ \E e \in NodeEntries : entry' = [pc |-> "new", e |-> e]
  /\ UNCHANGED <<writerVars, reader, dns, indexer, bucketStat>>

\* NodeEntry.decode(e.encode()).
EncodeDecode ==
  /\ entry.pc = "new"
  /\ entry' = [pc |-> "binary", e |-> entry.e,
               out |-> entryRead(entryWrite(entry.e))]
  /\ UNCHANGED <<writerVars, reader, dns, indexer, bucketStat>>

\* NodeEntry.fromJSON(e.toJSON()).
JSONRoundTrip ==
  /\ entry.pc = "new"
  /\ entry' = [pc |-> "json", e |-> entry.e,
               out |-> entryFromJSON(entryToJSON(entry.e))]
  /\ UNCHANGED <<writerVars, reader, dns, indexer, bucketStat>>

NextEntry == NewEntry \/ EncodeDecode \/ JSONRoundTrip

SpecEntry == InitEntry /\ [][NextEntry]_vars

\* ----------------------------------------------------------- DNSIndexer

\* common.SECOND, MINUTE, HOUR and DAY, in milliseconds.
SECOND == 1000

MINUTE == 60 * SECOND

HOUR == 60 * MINUTE

DAY == 24 * HOUR

\* common.floorTime.
floorTime(time, interval) == time - (time % interval)

\* The times of the entries indexed: two hours of one day and an hour of the
\* next day, each in a ten-minute window of its own.
DNSTimes == {10 * MINUTE, HOUR + 10 * MINUTE, DAY + 10 * MINUTE}

\* Two hosts, the name of one a prefix of the other's, and their bytes.
DNSHosts == {"a", "ab"}

HostBytes(h) == IF h = "a" THEN <<97>> ELSE <<97, 98>>

\* The entries indexed: with a result, with an error, or with neither (<<>>
\* for null).
DNSEntries ==
  {e \in [logTimestamp : {10 * MINUTE + 100}, time : DNSTimes,
          hostname : DNSHosts, error : {<<>>, <<"ETIMEOUT">>},
          result : {<<>>, <<"1.2.3.4">>}] :
     e.error = <<>> \/ e.result = <<>>}

\* DNSEntry.isSuccessful and DNSEntry.isFailed.
isSuccessful(e) == e.error = <<>> /\ e.result # <<>>

isFailed(e) == e.error # <<>>

\* indexUp: what the entry adds to the total.
newCount(e) == IF isSuccessful(e) THEN 1 ELSE 0

\* DNSIndexer.getUpCount and DNSIndexer.isUp.
getUpCount(db) == IF db.UP_COUNT = <<>> THEN 0 ELSE db.UP_COUNT[1]

isUp(db, key) == key \in db.UP

\* The setter of Uint32Record asserts value >>> 0 === value; a total stays
\* far below 2^32, so the test is on the sign.
IsUint32(value) == value >= 0

\* options.onlinePercentile || 0.90, in hundredths.
onlinePercentile == 90

\* new DNSBucketStatus(timeRange): nothing counted.
DNSBucketStatus == [up |-> 0, total |-> 0]

\* A percentage that takes the empty bucket for online.
emptyOnline(status) == 100 * status.up >= onlinePercentile * status.total

\* DNSBucketStatus.percentage >= onlinePercentile; the percentage of an
\* empty bucket is -1.
percentageOnline(status) ==
  status.total # 0 /\ 100 * status.up >= onlinePercentile * status.total

\* The bucket row read in indexHourly and indexDaily: the stored status, or
\* a new one.
bucketStatus(rows, key) ==
  IF key \in DOMAIN rows THEN rows[key] ELSE DNSBucketStatus

\* A bucket row that is set from the entry alone instead of counted up.
setBucket(status, e) == [up |-> newCount(e), total |-> 1]

\* The increment of indexHourly and indexDaily on the clone of the row.
addToBucket(status, e) ==
  [up |-> status.up + newCount(e), total |-> status.total + 1]

\* getHourlyUpCount and getDailyUpCount: 0 when the key is absent.
bucketUpCount(counts, time) ==
  IF time \in DOMAIN counts THEN counts[time] ELSE 0

\* The new per-bucket up-count of indexHourly and indexDaily.
bucketTotal(rows, counts, e, interval) ==
  LET b == floorTime(e.time, interval)
      oldStatus == bucketStatus(rows, <<e.hostname, b>>)
      newStatus == addToBucket(oldStatus, e)
      oldCount == IF percentageOnline(oldStatus) THEN 1 ELSE 0
      newCnt == IF percentageOnline(newStatus) THEN 1 ELSE 0
  IN bucketUpCount(counts, b) - oldCount + newCnt

\* The index() calls written so far for a host, a time and an outcome.
indexedCount(db, k) == IF k \in DOMAIN db.indexed THEN db.indexed[k] ELSE 0

\* What index() reads and writes: every key of the bucket.
Stored(db) ==
  <<db.UP_COUNT, db.UP, db.UP_COUNT_10, db.LAST_TIMESTAMP, db.LAST_UP,
    db.LAST_STATUS, db.STATUS_10_BY_HOST, db.STATUS_HOUR_BY_HOST,
    db.UP_COUNT_HOUR, db.STATUS_DAY_BY_HOST, db.UP_COUNT_DAY, db.stale>>

InitDNS == Start({EmptyDir}, NoBudget, <<>>)

\* DNSIndexer.index(batch, entry) with batch.write(): indexTimestamp,
\* indexLastUp, indexLastStatus, indexUp, indexHourly and indexDaily put
\* into one batch, which is written at the end; an exception on the way
\* leaves the bucket as it was.  Every read goes to the bucket, not to the
\* batch.
Index ==
  /\ dns.calls < MaxIndex
  /\ \E e \in DNSEntries :
       LET total == getUpCount(dns)
           oldCount == IF isUp(dns, e.hostname) THEN 1 ELSE 0
           newTotal == total - oldCount + newCount(e)
           min10 == floorTime(e.time, 10 * MINUTE)
           min60 == floorTime(e.time, HOUR)
           bucketDay == floorTime(e.time, DAY)
           total60 == bucketTotal(dns.STATUS_HOUR_BY_HOST, dns.UP_COUNT_HOUR,
                                  e, HOUR)
           totalDay == bucketTotal(dns.STATUS_DAY_BY_HOST, dns.UP_COUNT_DAY,
                                   e, DAY)
           k == <<e.hostname, e.time, isSuccessful(e)>>
       IN IF ~IsUint32(newTotal) \/ ~IsUint32(total60) \/ ~IsUint32(totalDay)
            THEN dns' = [dns EXCEPT !.threw = TRUE, !.calls = @ + 1,
                                    !.last = <<[entry |-> e, ok |-> FALSE]>>]
            ELSE dns' = [dns EXCEPT
                   !.calls = @ + 1,
                   !.last = <<[entry |-> e, ok |-> TRUE]>>,
                   !.indexed = With(@, k, indexedCount(dns, k) + 1),
                   !.LAST_TIMESTAMP = <<e.logTimestamp>>,
                   !.LAST_UP = IF isSuccessful(e) THEN With(@, e.hostname, e.time)
                               ELSE @,
                   !.LAST_STATUS = With(@, e.hostname, e),
                   !.STATUS_10_BY_HOST = With(@, <<e.hostname, min10>>, e),
                   !.UP_COUNT = <<newTotal>>,
                   !.UP_COUNT_10 = With(@, min10, newTotal),
                   !.UP = IF isSuccessful(e) THEN @ \cup {e.hostname}
                          ELSE IF isFailed(e) THEN @ \ {e.hostname}
                          ELSE @,
                   !.STATUS_HOUR_BY_HOST =
                      With(@, <<e.hostname, min60>>,
                           addToBucket(bucketStatus(@, <<e.hostname, min60>>), e)),
                   !.UP_COUNT_HOUR = With(@, min60, total60),
                   !.STATUS_DAY_BY_HOST =
                      With(@, <<e.hostname, bucketDay>>,
                           addToBucket(bucketStatus(@, <<e.hostname, bucketDay>>), e)),
                   !.UP_COUNT_DAY = With(@, bucketDay, totalDay)]
  /\ UNCHANGED <<writerVars, reader, entry, indexer, bucketStat>>

NextDNS == Index

SpecDNS == InitDNS /\ [][NextDNS]_vars

\* --------------------------------------------------- DNSIndexer: cleanup

\* The index() calls before a cleanup, and the bucket timestamps a cleanup
\* is given.  A run is index() calls and then one cleanup.
MaxKept == 2

Befores == {HOUR, DAY}

\* A uint64 of a key: eight bytes, the most significant first (the values
\* here fill the lower four).
U64BE(n) ==
  <<0, 0, 0, 0, (n \div 16777216) % 256, (n \div 65536) % 256,
    (n \div 256) % 256, n % 256>>

\* A buffer of a key: its length in one byte, then its bytes.
KeyBuffer(h) == <<Len(HostBytes(h))>> \o HostBytes(h)

\* The keys of the layout: the id byte, then the fields in order.
KeyByHost(id, h, ts) == <<id>> \o KeyBuffer(h) \o U64BE(ts)

KeyByTime(id, ts) == <<id>> \o U64BE(ts)

KeyByTimeHost(id, ts, h) == <<id>> \o U64BE(ts) \o KeyBuffer(h)

KeyOfHost(id, h) == <<id>> \o KeyBuffer(h)

\* key.min(host): the fields left out are zero.
KeyMin(id, h) == KeyByHost(id, h, 0)

\* The order of the keys in the store: byte by byte, a prefix first.
RECURSIVE bufferCompare(_, _)
bufferCompare(a, b) ==
  IF a = <<>> THEN (IF b = <<>> THEN 0 ELSE -1)
  ELSE IF b = <<>> THEN 1
  ELSE IF a[1] < b[1] THEN -1
  ELSE IF a[1] > b[1] THEN 1
  ELSE bufferCompare(Tail(a), Tail(b))

\* A range that takes its upper end in.
inRangeClosed(key, gte, lt) ==
  bufferCompare(gte, key) <= 0 /\ bufferCompare(key, lt) <= 0

\* bucket.iterator({gte, lt}): the keys from gte up to, not including, lt.
inRange(key, gte, lt) ==
  bufferCompare(gte, key) <= 0 /\ bufferCompare(key, lt) < 0

\* A function restricted to the arguments in S.
Restrict(f, S) == [x \in (DOMAIN f) \cap S |-> f[x]]

\* The ids of the layout.
idLAST_TIMESTAMP == 0

idLAST_STATUS == 16

idLAST_UP == 17

idUP == 18

idUP_COUNT == 19

idUP_COUNT_10 == 20

idUP_COUNT_HOUR == 21

idUP_COUNT_DAY == 22

idSTATUS_10_BY_HOST == 32

idSTATUS_10_BY_TIME == 33

idSTATUS_HOUR_BY_HOST == 34

idSTATUS_HOUR_BY_TIME == 35

idSTATUS_DAY_BY_HOST == 36

idSTATUS_DAY_BY_TIME == 37

\* The rows of an index that a range scan does not meet.
KeepByHost(rows, id, gte, lt) ==
  Restrict(rows, {k \in DOMAIN rows :
                    ~inRange(KeyByHost(id, k[1], k[2]), gte, lt)})

KeepByTime(rows, id, gte, lt) ==
  Restrict(rows, {t \in DOMAIN rows : ~inRange(KeyByTime(id, t), gte, lt)})

KeepOfHost(rows, id, gte, lt) ==
  Restrict(rows, {h \in DOMAIN rows : ~inRange(KeyOfHost(id, h), gte, lt)})

\* for await (const {key} of iter) batch.del(key), and batch.write(): the
\* bucket without the keys from gte up to lt, whatever index they are of.
delRange(db, gte, lt) ==
  [db EXCEPT
     !.LAST_TIMESTAMP = IF inRange(<<idLAST_TIMESTAMP>>, gte, lt) THEN <<>> ELSE @,
     !.LAST_STATUS = KeepOfHost(@, idLAST_STATUS, gte, lt),
     !.LAST_UP = KeepOfHost(@, idLAST_UP, gte, lt),
     !.UP = {h \in @ : ~inRange(KeyOfHost(idUP, h), gte, lt)},
     !.UP_COUNT = IF inRange(<<idUP_COUNT>>, gte, lt) THEN <<>> ELSE @,
     !.UP_COUNT_10 = KeepByTime(@, idUP_COUNT_10, gte, lt),
     !.UP_COUNT_HOUR = KeepByTime(@, idUP_COUNT_HOUR, gte, lt),
     !.UP_COUNT_DAY = KeepByTime(@, idUP_COUNT_DAY, gte, lt),
     !.STATUS_10_BY_HOST = KeepByHost(@, idSTATUS_10_BY_HOST, gte, lt),
     !.STATUS_HOUR_BY_HOST = KeepByHost(@, idSTATUS_HOUR_BY_HOST, gte, lt),
     !.STATUS_DAY_BY_HOST = KeepByHost(@, idSTATUS_DAY_BY_HOST, gte, lt),
     !.stale = {k \in @ : ~inRange(KeyByTimeHost(k.id, k.time, k.hostname),
                                    gte, lt)}]

\* The cleanups by host and by time, with the id of the index each scans.
StatusCleanups ==
  {[fn |-> "cleanupLastStatusesByTime", id |-> idSTATUS_10_BY_HOST],
   [fn |-> "cleanupHourlyStatusesByTime", id |-> idSTATUS_HOUR_BY_HOST],
   [fn |-> "cleanupDailyStatusesByTime", id |-> idSTATUS_DAY_BY_HOST]}

UpCountCleanups ==
  {[fn |-> "cleanup10mUpCounts", id |-> idUP_COUNT_10],
   [fn |-> "cleanupHourlyUpCounts", id |-> idUP_COUNT_HOUR],
   [fn |-> "cleanupDailyUpCounts", id |-> idUP_COUNT_DAY]}

\* The keys an upgraded deployment may still hold under the deprecated
\* by-time indexes.
StaleKeys ==
  {[id |-> idSTATUS_10_BY_TIME, time |-> 10 * MINUTE, hostname |-> "a"],
   [id |-> idSTATUS_HOUR_BY_TIME, time |-> 0, hostname |-> "ab"],
   [id |-> idSTATUS_DAY_BY_TIME, time |-> 0, hostname |-> "a"]}

InitDNSClean == Start({EmptyDir}, NoBudget, <<>>)

\* A StatusDB that an earlier version has written by-time keys into.
Upgraded ==
  /\ dns = NoDNS
  /\ dns' = [dns EXCEPT !.stale = StaleKeys]
  /\ UNCHANGED <<writerVars, reader, entry, indexer, bucketStat>>

\* index() while the cleanup is still to come.
IndexKept == dns.calls < MaxKept /\ dns.op = <<>> /\ Index

\* cleanupLastStatusesByTime, cleanupHourlyStatusesByTime and
\* cleanupDailyStatusesByTime (hostname, before).
CleanupStatusesByTime ==
  /\ dns.op = <<>>
  /\ \E c \in StatusCleanups, h \in DNSHosts, before \in Befores :
       dns' = [delRange(dns, KeyMin(c.id, h), KeyByHost(c.id, h, before))
                 EXCEPT !.op = <<[fn |-> c.fn, id |-> c.id, hostname |-> <<h>>,
                                  before |-> before]>>]
  /\ UNCHANGED <<writerVars, reader, entry, indexer, bucketStat>>

\* cleanup10mUpCounts, cleanupHourlyUpCounts and cleanupDailyUpCounts
\* (before).
CleanupUpCounts ==
  /\ dns.op = <<>>
  /\ \E c \in UpCountCleanups, before \in Befores :
       dns' = [delRange(dns, KeyByTime(c.id, 0), KeyByTime(c.id, before))
                 EXCEPT !.op = <<[fn |-> c.fn, id |-> c.id, hostname |-> <<>>,
                                  before |-> before]>>]
  /\ UNCHANGED <<writerVars, reader, entry, indexer, bucketStat>>

\* cleanupStale(): each cleanUp(index) scans the index and puts a del of
\* every key into a batch of its own, which is never written.
cleanupStale ==
  /\ dns.op = <<>>
  /\ dns' = [dns EXCEPT !.op = <<[fn |-> "cleanupStale", id |-> -1,
                                   hostname |-> <<>>, before |-> 0]>>]
  /\ UNCHANGED <<writerVars, reader, entry, indexer, bucketStat>>

NextDNSClean ==
  \/ Upgraded
  \/ IndexKept
  \/ CleanupStatusesByTime
  \/ CleanupUpCounts
  \/ cleanupStale

SpecDNSClean == InitDNSClean /\ [][NextDNSClean]_vars

\* ---------------------------------- DNSIndexer: index() among the cleanups

\* The index() calls of a run in which cleanups come at any point.
MaxMixed == 2

InitDNSMixed == Start({EmptyDir}, NoBudget, <<>>)

\* index() of an entry that has a result or an error.
IndexDefinite ==
  /\ Index
  /\ isSuccessful(dns'.last[1].entry) \/ isFailed(dns'.last[1].entry)

IndexResolved == dns.calls < MaxMixed /\ IndexDefinite

\* The cleanups of a run come after its first index() call and before its
\* last.
Between == 0 < dns.calls /\ dns.calls < MaxMixed

\* cleanupLastStatusesByTime, cleanupHourlyStatusesByTime and
\* cleanupDailyStatusesByTime (hostname, before), between index() calls.
StatusesCleaned ==
  /\ Between
  /\ \E c \in StatusCleanups, h \in DNSHosts, before \in Befores :
       dns' = delRange(dns, KeyMin(c.id, h), KeyByHost(c.id, h, before))
  /\ UNCHANGED <<writerVars, reader, entry, indexer, bucketStat>>

\* cleanup10mUpCounts, cleanupHourlyUpCounts and cleanupDailyUpCounts
\* (before), between index() calls.
UpCountsCleaned ==
  /\ Between
  /\ \E c \in UpCountCleanups, before \in Befores :
       dns' = delRange(dns, KeyByTime(c.id, 0), KeyByTime(c.id, before))
  /\ UNCHANGED <<writerVars, reader, entry, indexer, bucketStat>>

NextDNSMixed == IndexResolved \/ StatusesCleaned \/ UpCountsCleaned

SpecDNSMixed == InitDNSMixed /\ [][NextDNSMixed]_vars

\* index() of resolved and failed entries with no cleanup among them.
SpecDNSResolved == InitDNSMixed /\ [][IndexDefinite]_vars

\* ------------------------------------------------------ NodeBucketStatus

\* The add() calls on one NodeBucketStatus.
MaxAdds == 10

\* netCommon.services of hsd.
NETWORK == 1

BLOOM == 2

\* An agent string, in pieces.  VERSION_REGEX matches /hsd:d.d.d/ at the
\* start, with one or two digits in each place.
SemVers == {"6.1.0", "7.0.0"}

hsdAgent(v) == <<"/hsd:", v, "/">>

\* NodeDetails.version.
version(details) ==
  LET agent == details.agent
  IN IF Len(agent) >= 3 /\ agent[1] = "/hsd:" /\ agent[2] \in SemVers
        /\ agent[3] = "/"
       THEN agent[2] ELSE "other"

\* NodeDetails.canSync and NodeDetails.hasBloom, as truth values.
canSync(details) == details.services % 2 = NETWORK /\ ~details.noRelay

hasBloom(details) == (details.services \div BLOOM) % 2 = 1

\* new NodeDetails().
NodeDetails ==
  [peerVersion |-> 0, services |-> 0, height |-> 0, agent |-> <<"">>,
   noRelay |-> FALSE, brontide |-> FALSE, pruned |-> FALSE,
   treeCompacted |-> FALSE]

\* The results of the entries given to an indexer: a full node that serves
\* SPV peers, a pruned and compacted node that does not relay, and a node
\* of another implementation.
FullNode ==
  [NodeDetails EXCEPT !.peerVersion = 3, !.services = NETWORK + BLOOM,
                      !.height = 100, !.agent = hsdAgent("6.1.0")]

PrunedNode ==
  [NodeDetails EXCEPT !.peerVersion = 3, !.services = NETWORK,
                      !.height = 90, !.agent = hsdAgent("7.0.0"),
                      !.noRelay = TRUE, !.pruned = TRUE,
                      !.treeCompacted = TRUE]

OtherNode ==
  [NodeDetails EXCEPT !.peerVersion = 1, !.services = NETWORK,
                      !.height = 100, !.agent = <<"/other:", "1.0", "/">>]

\* The entries added to a bucket: failed, successful, or neither.
StatusEntries ==
  {[host |-> "1.2.3.4", port |-> 1, brontide |-> FALSE, error |-> err,
    result |-> res] :
     err \in {<<>>}, res \in {<<>>, <<FullNode>>, <<PrunedNode>>, <<OtherNode>>}}
  \cup {[host |-> "1.2.3.4", port |-> 1, brontide |-> FALSE,
         error |-> <<"ECONNREFUSED">>, result |-> <<>>]}

\* Map.get(key) || 0 and Map.set(key, value) on the Map of the versions.
versionGet(m, key) ==
  IF \E i \in 1..Len(m) : m[i].key = key
    THEN m[CHOOSE i \in 1..Len(m) : m[i].key = key].value ELSE 0

versionSet(m, key, value) ==
  IF \E i \in 1..Len(m) : m[i].key = key
    THEN [i \in 1..Len(m) |->
            IF m[i].key = key THEN [key |-> key, value |-> value] ELSE m[i]]
    ELSE Append(m, [key |-> key, value |-> value])

versionDelete(m, key) == SelectSeq(m, LAMBDA kv : kv.key # key)

\* What an entry's result counts for.
one(b) == IF b THEN 1 ELSE 0

\* UpCounts.add past its assertion.
countsAdd(c, e) ==
  LET result == e.result[1]
  IN [c EXCEPT !.total = @ + 1,
               !.spv = @ + one(hasBloom(result)),
               !.compacted = @ + one(result.treeCompacted),
               !.pruned = @ + one(result.pruned),
               !.canSync = @ + one(canSync(result)),
               !.version = versionSet(@, version(result),
                                      versionGet(@, version(result)) + 1)]

\* UpCounts.sub up to the assertion on the version count: what it has
\* changed when the assertion fails.
countsSubFields(c, e) ==
  LET result == e.result[1]
  IN [c EXCEPT !.total = @ - 1,
               !.spv = @ - one(hasBloom(result)),
               !.compacted = @ - one(result.treeCompacted),
               !.pruned = @ - one(result.pruned),
               !.canSync = @ - one(canSync(result))]

\* The assertion of UpCounts.sub holds.
countsSubOk(c, e) == versionGet(c.version, version(e.result[1])) > 0

\* A sub that takes nothing off.
countsKeep(c, e) == c

\* UpCounts.sub past its assertions.
countsSub(c, e) ==
  LET v == version(e.result[1])
      n == versionGet(c.version, v)
  IN [countsSubFields(c, e) EXCEPT
        !.version = IF n - 1 = 0 THEN versionDelete(@, v)
                    ELSE versionSet(@, v, n - 1)]

\* NodeEntry.isSuccessful and NodeEntry.isFailed.
entrySuccessful(e) == e.error = <<>> /\ e.result # <<>>

entryFailed(e) == e.error # <<>>

\* NodeBucketStatus.add throws: the entry is neither failed nor successful,
\* and UpCounts.add asserts entry.isSuccessful().
addThrows(e) == ~entryFailed(e) /\ ~entrySuccessful(e)

\* NodeBucketStatus.add: what the object is after the call, thrown or not.
statusAdd(st, e) ==
  IF entryFailed(e) THEN [st EXCEPT !.total = @ + 1]
  ELSE IF addThrows(e) THEN [st EXCEPT !.up = @ + 1]
  ELSE countsAdd([st EXCEPT !.up = @ + 1], e)

\* A feature that is set from one half on.
fromFeaturePerc(counter, total) == 2 * counter >= total

\* featurePerc = 0.5: counter / total > featurePerc.
overFeaturePerc(counter, total) == 2 * counter > total

\* NodeBucketStatus.percentile < onPerc, onPerc in hundredths; the
\* percentile of an empty bucket is -1.
underOnPerc(st, onPerc) == st.total = 0 \/ 100 * st.up < onPerc * st.total

\* Array.sort of the keys by their counts, the greater first: a stable
\* insertion sort.
RECURSIVE sortInsert(_, _, _)
sortInsert(sorted, key, m) ==
  IF sorted = <<>> THEN <<key>>
  ELSE IF versionGet(m, sorted[Len(sorted)]) >= versionGet(m, key)
    THEN Append(sorted, key)
  ELSE Append(sortInsert(SubSeq(sorted, 1, Len(sorted) - 1), key, m),
              sorted[Len(sorted)])

RECURSIVE sortedVersions(_, _)
sortedVersions(m, n) ==
  IF n = 0 THEN <<>>
  ELSE sortInsert(sortedVersions(m, n - 1), m[n].key, m)

\* NodeBucketStatus.getVirtualEntry(entry, onPerc, featurePerc = 0.5).
getVirtualEntry(st, e, onPerc) ==
  LET virtEntry == [logTimestamp |-> 0, time |-> 0, host |-> e.host,
                    port |-> e.port, brontide |-> e.brontide,
                    frequency |-> 0, interval |-> 0,
                    error |-> <<>>, result |-> <<>>]
      r0 == IF entrySuccessful(e)
              THEN [NodeDetails EXCEPT !.peerVersion = e.result[1].peerVersion,
                                       !.height = e.result[1].height]
              ELSE NodeDetails
      r1 == IF overFeaturePerc(st.spv, st.total)
              THEN [r0 EXCEPT !.services = BLOOM] ELSE r0
      r2 == IF overFeaturePerc(st.canSync, st.total)
              THEN [r1 EXCEPT !.services = IF @ % 2 = NETWORK THEN @
                                           ELSE @ + NETWORK,
                              !.noRelay = FALSE]
              ELSE r1
      r3 == IF overFeaturePerc(st.compacted, st.total)
              THEN [r2 EXCEPT !.treeCompacted = TRUE] ELSE r2
      r4 == IF overFeaturePerc(st.pruned, st.total)
              THEN [r3 EXCEPT !.pruned = TRUE] ELSE r3
      versions == sortedVersions(st.version, Len(st.version))
      top == IF versions = <<>> THEN "undefined" ELSE versions[1]
  IN IF underOnPerc(st, onPerc)
       THEN [virtEntry EXCEPT !.error = <<"Node is down">>]
       ELSE [virtEntry EXCEPT !.result = <<[r4 EXCEPT !.agent = hsdAgent(top)]>>]

InitStatus == Start({EmptyDir}, NoBudget, <<>>)

\* status.add(entry).
Add ==
  /\ bucketStat.adds < MaxAdds
  /\ \E e \in StatusEntries :
       bucketStat' = [bucketStat EXCEPT !.s = statusAdd(@, e), !.adds = @ + 1,
                                !.threw = @ \/ addThrows(e), !.virt = <<>>]
  /\ UNCHANGED <<writerVars, reader, entry, dns, indexer>>

\* status.getVirtualEntry(entry, onlinePercentile).
GetVirtualEntry ==
  /\ bucketStat.virt = <<>>
  /\ \E e \in StatusEntries :
       bucketStat' = [bucketStat EXCEPT !.virt = <<getVirtualEntry(bucketStat.s, e,
                                                          onlinePercentile)>>]
  /\ UNCHANGED <<writerVars, reader, entry, dns, indexer>>

NextStatus == Add \/ GetVirtualEntry

SpecStatus == InitStatus /\ [][NextStatus]_vars

\* ----------------------------------------------------------- NodeIndexer

\* The index() calls on a NodeIndexer.
MaxNodeIndex == 3

WEEK == 7 * DAY

\* Date.now() at the calls, and the logTimestamps of the entries: at the
\* two gates and one millisecond past the gate of a day.
NodeNow == 2 * WEEK + 2 * DAY

LogTimestamps == {NodeNow - 2 * WEEK, NodeNow - DAY, NodeNow - DAY + 1}

\* The entries indexed: two hosts at one port; failed, successful (two kinds
\* of node) or neither; probed at the time they are logged.
IndexEntries ==
  {[logTimestamp |-> ts, time |-> ts, host |-> h, port |-> 12038,
    brontide |-> FALSE, error |-> o.error, result |-> o.result,
    frequency |-> 1, interval |-> 2] :
     ts \in LogTimestamps, h \in {"1.2.3.4", "::1"},
     o \in {[error |-> <<"ECONNREFUSED">>, result |-> <<>>],
            [error |-> <<>>, result |-> <<>>],
            [error |-> <<>>, result |-> <<FullNode>>],
            [error |-> <<>>, result |-> <<PrunedNode>>]}}

\* NodeEntry.key.
entryKey(e) == rawHostAndPort(e)

\* NodeIndexer.getUpCounts.
getUpCounts(ix) ==
  IF ix.cachesEnabled /\ ix.upCounts # <<>> THEN ix.upCounts[1]
  ELSE IF ix.db.UP_COUNTS = <<>> THEN UpCounts
  ELSE ix.db.UP_COUNTS[1]

\* NodeIndexer.isUp.
nodeIsUp(ix, key) ==
  IF ix.cachesEnabled /\ key \in DOMAIN ix.isUpCache THEN ix.isUpCache[key]
  ELSE key \in ix.db.UP

\* NodeIndexer.getLastUp: <<>> for null.
getLastUp(ix, key) ==
  IF ix.cachesEnabled /\ key \in DOMAIN ix.lastUpCache
    THEN <<ix.lastUpCache[key]>>
  ELSE IF key \in DOMAIN ix.db.LAST_UP
    THEN <<entryRead(ix.db.LAST_UP[key])>>
  ELSE <<>>

\* NodeIndexer.getLastStatus: <<>> for null.
getLastStatus(ix, key) ==
  IF key \in DOMAIN ix.db.LAST_STATUS
    THEN <<entryRead(ix.db.LAST_STATUS[key])>> ELSE <<>>

\* NodeIndexer.getUpCounts10.
getUpCounts10(ix, time) ==
  IF time \in DOMAIN ix.db.UP_COUNTS_10 THEN ix.db.UP_COUNTS_10[time]
  ELSE UpCounts

\* The names of the rows and caches of the hourly and the daily buckets.
Hourly ==
  [interval |-> HOUR, enabled |-> "hourlyCacheEnabled",
   rows |-> "STATUS_HOUR_BY_HOST", rowCache |-> "statusByHourByHostCache",
   counts |-> "UP_COUNTS_HOUR", countsCache |-> "upCountsHourlyCache"]

Daily ==
  [interval |-> DAY, enabled |-> "dailyCacheEnabled",
   rows |-> "STATUS_DAY_BY_HOST", rowCache |-> "statusDayByHostCache",
   counts |-> "UP_COUNTS_DAY", countsCache |-> "upCountsDayCache"]

\* The status or the counts come from the cache.
cached(ix, b, cache, k) == ix[b.enabled] /\ k \in DOMAIN ix[cache]

\* getHourlyStatusByHost and getDailyStatusByHost.
getStatusByHost(ix, b, bucketKey) ==
  IF cached(ix, b, b.rowCache, bucketKey) THEN ix[b.rowCache][bucketKey]
  ELSE IF bucketKey \in DOMAIN ix.db[b.rows] THEN ix.db[b.rows][bucketKey]
  ELSE NodeBucketStatus

\* getHourlyUpCounts and getDailyUpCounts.
getBucketUpCounts(ix, b, time) ==
  IF cached(ix, b, b.countsCache, time) THEN ix[b.countsCache][time]
  ELSE IF time \in DOMAIN ix.db[b.counts] THEN ix.db[b.counts][time]
  ELSE UpCounts

\* An index() call under way: the indexer m.ix with its caches as they are
\* by now, the batch as the bucket it will leave when written, the names of
\* the keys put or deleted, whether the call has thrown, and the entry
\* that was given to counts.sub(), if any.
Call(ix) ==
  [ix |-> ix, batch |-> ix.db, puts |-> {}, threw |-> FALSE, sub |-> <<>>]

put(m, name, value) ==
  [m EXCEPT !.batch[name] = value, !.puts = @ \cup {name}]

setCache(m, flag, cache, value) ==
  IF m.ix[flag] THEN [m EXCEPT !.ix[cache] = value] ELSE m

\* indexTimestamp and indexPort.
indexTimestamp(m, e) == put(m, "LAST_TIMESTAMP", <<e.logTimestamp>>)

indexPort(m, e) ==
  put(m, "PORT_MAPPINGS", m.batch.PORT_MAPPINGS \cup {<<e.host, e.port>>})

\* indexUpCounts.  A sub() that fails its assertion has changed the counts
\* object already, which is the cached one when the cache gave it.
indexUpCounts(m, e) ==
  LET counts == getUpCounts(m.ix)
      held == m.ix.cachesEnabled /\ m.ix.upCounts # <<>>
      wasUp == nodeIsUp(m.ix, entryKey(e))
      oldStatus == getLastUp(m.ix, entryKey(e))
      min10 == floorTime(e.time, 10 * MINUTE)
      subbed == IF wasUp THEN countsSub(counts, oldStatus[1]) ELSE counts
      added == IF entrySuccessful(e) THEN countsAdd(subbed, e) ELSE subbed
      taken == [m EXCEPT !.sub = IF wasUp THEN oldStatus ELSE @]
  IN IF wasUp /\ oldStatus = <<>> THEN [m EXCEPT !.threw = TRUE]
     ELSE IF wasUp /\ ~countsSubOk(counts, oldStatus[1])
       THEN [m EXCEPT !.threw = TRUE, !.sub = oldStatus,
                      !.ix.upCounts = IF held
                                        THEN <<countsSubFields(counts, oldStatus[1])>>
                                        ELSE @]
     ELSE setCache(put(put(taken, "UP_COUNTS", <<added>>),
                       "UP_COUNTS_10", With(m.batch.UP_COUNTS_10, min10, added)),
                   "cachesEnabled", "upCounts", <<added>>)

\* indexUp.
indexUp(m, e) ==
  IF entrySuccessful(e)
    THEN setCache(put(m, "UP", m.batch.UP \cup {entryKey(e)}),
                  "cachesEnabled", "isUpCache",
                  With(m.ix.isUpCache, entryKey(e), TRUE))
  ELSE IF entryFailed(e)
    THEN setCache(put(m, "UP", m.batch.UP \ {entryKey(e)}),
                  "cachesEnabled", "isUpCache",
                  With(m.ix.isUpCache, entryKey(e), FALSE))
  ELSE m

\* indexLastUp and indexLastStatus.
indexLastUp(m, e) ==
  IF entrySuccessful(e)
    THEN setCache(put(m, "LAST_UP",
                      With(m.batch.LAST_UP, entryKey(e), entryWrite(e))),
                  "cachesEnabled", "lastUpCache",
                  With(m.ix.lastUpCache, entryKey(e), e))
    ELSE m

indexLastStatus(m, e) ==
  LET min10 == floorTime(e.time, 10 * MINUTE)
  IN put(put(m, "LAST_STATUS",
             With(m.batch.LAST_STATUS, entryKey(e), entryWrite(e))),
         "STATUS_10_BY_HOST",
         With(m.batch.STATUS_10_BY_HOST, <<entryKey(e), min10>>, entryWrite(e)))

\* indexHourly and indexDaily.  status.add(entry) and counts.sub(entry)
\* change their object before they throw; the object is the cached one when
\* the cache gave it.
indexBucket(m, e, b) ==
  LET time == floorTime(e.time, b.interval)
      bucketKey == <<entryKey(e), time>>
      status == getStatusByHost(m.ix, b, bucketKey)
      statusHeld == cached(m.ix, b, b.rowCache, bucketKey)
      oldVirtEntry == getVirtualEntry(status, e, onlinePercentile)
      newStatus == statusAdd(status, e)
      newVirtEntry == getVirtualEntry(newStatus, e, onlinePercentile)
      m1 == setCache(put(m, b.rows, With(m.batch[b.rows], bucketKey, newStatus)),
                     b.enabled, b.rowCache,
                     With(m.ix[b.rowCache], bucketKey, newStatus))
      counts == getBucketUpCounts(m.ix, b, time)
      countsHeld == cached(m.ix, b, b.countsCache, time)
      subbed == IF entrySuccessful(oldVirtEntry)
                  THEN countsSub(counts, oldVirtEntry) ELSE counts
      added == IF entrySuccessful(newVirtEntry)
                 THEN countsAdd(subbed, newVirtEntry) ELSE subbed
  IN IF addThrows(e)
       THEN [m EXCEPT !.threw = TRUE,
                      !.ix[b.rowCache] =
                         IF statusHeld THEN With(@, bucketKey, newStatus) ELSE @]
     ELSE IF entrySuccessful(oldVirtEntry) /\ ~countsSubOk(counts, oldVirtEntry)
       THEN [m1 EXCEPT !.threw = TRUE,
                       !.ix[b.countsCache] =
                          IF countsHeld
                            THEN With(@, time, countsSubFields(counts, oldVirtEntry))
                            ELSE @]
     ELSE setCache(put(m1, b.counts, With(m1.batch[b.counts], time, added)),
                   b.enabled, b.countsCache,
                   With(m1.ix[b.countsCache], time, added))

\* One step of index() after another, none once the call has thrown.
then(m, does, step(_, _), e) == IF m.threw \/ ~does THEN m ELSE step(m, e)

indexHourly(m, e) == indexBucket(m, e, Hourly)

indexDaily(m, e) == indexBucket(m, e, Daily)

\* A gate that lets the entry of the limit itself through.
notBefore(logged, limit) == logged >= limit

\* The recency gates of index(): entry.logTimestamp > dayAgo, > weeksAgo2.
after(logged, limit) == logged > limit

\* An index() that writes LAST_UP before it reads the up-counts.
indexLastUpFirst(ix, e, time) ==
  LET dayAgo == time - DAY
      weeksAgo2 == time - 2 * WEEK
      m1 == indexPort(indexTimestamp(Call(ix), e), e)
      m2 == then(m1, TRUE, indexLastUp, e)
      m3 == then(m2, after(e.logTimestamp, dayAgo), indexUpCounts, e)
      m4 == then(m3, after(e.logTimestamp, dayAgo), indexUp, e)
      m5 == then(m4, TRUE, indexLastStatus, e)
      m6 == then(m5, after(e.logTimestamp, weeksAgo2), indexHourly, e)
  IN then(m6, TRUE, indexDaily, e)

\* NodeIndexer.index(batch, entry) up to batch.write().
indexCall(ix, e, time) ==
  LET dayAgo == time - DAY
      weeksAgo2 == time - 2 * WEEK
      m1 == indexPort(indexTimestamp(Call(ix), e), e)
      m2 == then(m1, after(e.logTimestamp, dayAgo), indexUpCounts, e)
      m3 == then(m2, after(e.logTimestamp, dayAgo), indexUp, e)
      m4 == then(m3, TRUE, indexLastUp, e)
      m5 == then(m4, TRUE, indexLastStatus, e)
      m6 == then(m5, after(e.logTimestamp, weeksAgo2), indexHourly, e)
  IN then(m6, TRUE, indexDaily, e)

\* batch.write(): the bucket is the batch, unless the call has thrown.
written(m) == [m.ix EXCEPT !.db = IF m.threw THEN @ ELSE m.batch]

InitIndex == Start({EmptyDir}, NoBudget, <<>>)

\* index(batch, entry) on both indexers.
NodeIndex ==
  /\ indexer.calls < MaxNodeIndex
  /\ indexer.op = <<>>
  /\ \E e \in IndexEntries :
       \E on \in {indexCall(indexer.on, e, NodeNow)},
          off \in {indexCall(indexer.off, e, NodeNow)} :
         indexer' = [indexer EXCEPT
            !.on = written(on), !.off = written(off), !.calls = @ + 1,
            !.threw = @ \/ on.threw \/ off.threw,
            !.last = <<[entry |-> e, time |-> NodeNow,
                        threw |-> on.threw, puts |-> on.puts,
                        threwOff |-> off.threw, putsOff |-> off.puts]>>]
  /\ UNCHANGED <<writerVars, reader, entry, dns, bucketStat>>

\* The ids of the up-count keys of the node layout.
idUP_COUNTS_10 == 21

idUP_COUNTS_HOUR == 22

idUP_COUNTS_DAY == 23

\* cleanup10mUpCounts, cleanupHourlyUpCounts, cleanupDailyUpCounts: the
\* index each of them scans.
NodeCleanups ==
  {[fn |-> "cleanup10mUpCounts", id |-> idUP_COUNTS_10,
    counts |-> "UP_COUNTS_10"],
   [fn |-> "cleanupHourlyUpCounts", id |-> idUP_COUNTS_HOUR,
    counts |-> "UP_COUNTS_HOUR"],
   [fn |-> "cleanupDailyUpCounts", id |-> idUP_COUNTS_DAY,
    counts |-> "UP_COUNTS_DAY"]}

\* The argument given to the cleanups: now, which is past every bucket.
NodeBefores == {NodeNow}

\* A cleanup of an indexer: the rows of the index from its least key up
\* to, not including, the key of before are deleted from the bucket.  The
\* caches are not touched.
nodeCleanup(ix, c, before) ==
  [ix EXCEPT !.db[c.counts] =
     Restrict(@, {time \in DOMAIN @ :
                    ~inRange(KeyByTime(c.id, time), KeyByTime(c.id, 0),
                             KeyByTime(c.id, before))})]

\* One of the cleanups, on both indexers.
NodeCleanup ==
  /\ indexer.op = <<>>
  /\ \E c \in NodeCleanups, before \in NodeBefores :
       indexer' = [indexer EXCEPT
         !.on = nodeCleanup(@, c, before),
         !.off = nodeCleanup(@, c, before),
         !.op = <<[fn |-> c.fn, before |-> before]>>]
  /\ UNCHANGED <<writerVars, reader, entry, dns, bucketStat>>

NextIndex == NodeIndex \/ NodeCleanup

SpecIndex == InitIndex /\ [][NextIndex]_vars

\* The indexer fed from the log as the wall clock runs: it works through
\* entries logged an hour ago, stands still for two days, and goes on.
MaxClockIndex == 3

ClockTimes == {NodeNow, NodeNow + 2 * DAY}

ClockEntries ==
  {[logTimestamp |-> ts, time |-> ts, host |-> h, port |-> 12038,
    brontide |-> FALSE, error |-> o.error, result |-> o.result,
    frequency |-> 1, interval |-> 2] :
     ts \in {NodeNow - HOUR, NodeNow + 2 * DAY},
     h \in {"1.2.3.4", "::1"},
     o \in {[error |-> <<"ECONNREFUSED">>, result |-> <<>>],
            [error |-> <<>>, result |-> <<FullNode>>],
            [error |-> <<>>, result |-> <<PrunedNode>>]}}

\* The entries of the hosts that UP_COUNTS holds after the call: the entry
\* added, less the host whose entry was taken off.
countedAfter(counted, ix, m, e, time) ==
  IF m.threw \/ ~after(e.logTimestamp, time - DAY) THEN counted
  ELSE IF entrySuccessful(e) THEN With(counted, entryKey(e), e)
  ELSE IF nodeIsUp(ix, entryKey(e)) THEN Without(counted, entryKey(e))
  ELSE counted

InitClock == Start({EmptyDir}, NoBudget, <<>>)

\* index(batch, entry) with now = time: the log is read in order, and no
\* entry is read before it is logged nor the clock set back.
NodeIndexAt ==
  /\ indexer.calls < MaxClockIndex
  /\ \E time \in ClockTimes, e \in ClockEntries :
       /\ e.logTimestamp <= time
       /\ indexer.last # <<>> =>
            /\ indexer.last[1].time <= time
            /\ indexer.last[1].entry.logTimestamp <= e.logTimestamp
       /\ \E on \in {indexCall(indexer.on, e, time)},
             off \in {indexCall(indexer.off, e, time)} :
            indexer' = [indexer EXCEPT
              !.on = written(on), !.off = written(off), !.calls = @ + 1,
              !.threw = @ \/ on.threw \/ off.threw,
              !.counted = countedAfter(@, indexer.on, on, e, time),
              !.last = <<[entry |-> e, time |-> time,
                          threw |-> on.threw, puts |-> on.puts,
                          sub |-> on.sub,
                          threwOff |-> off.threw, putsOff |-> off.puts,
                          subOff |-> off.sub]>>]
  /\ UNCHANGED <<writerVars, reader, entry, dns, bucketStat>>

NextClock == NodeIndexAt

SpecClock == InitClock /\ [][NextClock]_vars

\* --------------------------------------------------- what the claims speak of

\* A step of the producer's write(): one more call is on record.
WriteStep == Len(calls') = Len(calls) + 1

\* The queue entry of the call a Write step records.
Issued == [id |-> Len(calls'), len |-> calls'[Len(calls')].len,
           ts |-> calls'[Len(calls')].ts, bare |-> FALSE]

\* A step in which openFile installs a stream.
OpenOkStep == sid' = sid + 1

\* A step in which handleError runs.
StreamErrorStep == errs' = errs + 1 /\ stream # NoStream /\ stream' = NoStream

RECURSIVE Ids(_)
Ids(s) == IF s = <<>> THEN {} ELSE {Head(s).id} \cup Ids(Tail(s))

\* The records of this session found in the files of the directory.
DiskIds ==
  (UNION {Ids(plain[k]) : k \in DOMAIN plain}
     \cup UNION {Ids(gz[k]) : k \in DOMAIN gz}) \ {0}

\* The records of a file, or of the queue, stand in the order of their calls.
Ascending(s) == \A i, j \in 1..Len(s) : i < j => s[i].id < s[j].id

\* The queued records of the set q wait in call order, and nothing issued
\* after one of them is on disk while it waits.
WaitInOrder(q) ==
  \A i \in 1..Len(buffer) :
    buffer[i].id \in q =>
      /\ \A r \in DiskIds : r < buffer[i].id
      /\ \A j \in 1..(i - 1) : buffer[j].id < buffer[i].id

\* The records of the set q stand in their files after earlier records only.
WrittenInOrder(q) ==
  \A k \in DOMAIN plain : \A i, j \in 1..Len(plain[k]) :
    i < j /\ plain[k][j].id \in q => plain[k][i].id < plain[k][j].id

\* The stream that opens writes the record at the head of the queue.
HeadWritten == Head(buffer).id \in Ids(plain'[stream'])

Segments == ((DOMAIN plain) \cup (DOMAIN gz)) \ {NaNTs}

SegmentIds(k) ==
  (IF k \in DOMAIN plain THEN Ids(plain[k]) ELSE {})
    \cup (IF k \in DOMAIN gz THEN Ids(gz[k]) ELSE {})

\* C2: any two records on disk stand in the order of their write() calls:
\* by offset inside a file, and by segment timestamp across files.  The file
\* event-NaN.json, which has no timestamp, is left out of the comparison.
C2_CallOrder ==
  /\ \A k \in DOMAIN plain : Ascending(plain[k])
  /\ \A k \in DOMAIN gz : Ascending(gz[k])
  /\ \A k1, k2 \in Segments :
       k1 < k2 => \A a \in SegmentIds(k1), b \in SegmentIds(k2) : a < b

\* C3: once open() has completed the lockfile is held until the owner's
\* close() releases it, through every rotation.
C3_LockHeld == hist.opened /\ ucl.pc # "done" => lockHeld

\* C3 witness: a second rotation is closing its stream, the first one has
\* sealed its segment, and the lock is held.
C3_Witness == hist.sealed # {} /\ rot.pc = "close" /\ lockHeld /\ ucl.pc = "idle"

\* C4: close() of the owner on an opened writer completes in every state:
\* it never stops at an assertion with the lock still held.
C4_CloseCompletes == ~(ucl.pc = "threw" /\ lockHeld)

\* C5: a write() on a writer that is not ready, or that is closing its
\* stream outside of a rotation or segment open, returns false and leaves
\* the queue, the size, the stream and the files as they are.
C5_Refused ==
  [][WriteStep /\ (~ready \/ (closing /\ ~rotating /\ ~opening))
       => /\ ~rets'[Len(rets')]
          /\ UNCHANGED <<buffer, fileSize, filePath, stream, sid, plain, gz,
                         opens, rot, opening, rotating>>]_vars

\* C5 witness: one write() was refused while the owner's close() was closing
\* the stream and another after the close.
C5_Witness == hist.refused = {"closing", "notready"}

\* C6: when the directory's most recent segment is plain and below
\* maxFileSize, the first stream of the session appends to that segment.
C6_AppendsToLast ==
  /\ OldTime \in DOMAIN hist.dir0
  /\ getFileSize(hist.dir0, OldTime) < maxFileSize
  /\ hist.first # NoStream
  => hist.first = OldTime

\* Nothing asynchronous is left to happen.
Settled ==
  /\ opens = <<>> /\ gzips = <<>> /\ rot.pc = "idle" /\ timer = NoTimer

\* The three write() calls of the rotation scenario, each accepted, on a
\* writer that is open and met no failure.
RotationScenario ==
  /\ calls = <<[ts |-> FirstTime, len |-> 8], [ts |-> FirstTime + 1, len |-> 8],
               [ts |-> FirstTime + 2, len |-> 8]>>
  /\ rets = <<TRUE, TRUE, TRUE>>
  /\ errs = 0 /\ ucl.pc = "idle" /\ budget.autoGzip

\* C7: after the three writes of the rotation scenario, once every
\* asynchronous step has run, the directory holds event-1000.json.gz and
\* event-1002.json and nothing else, and a reader opened at 0 yields the
\* three records in order.
C7_RotationGzip ==
  RotationScenario /\ Settled
    => /\ DOMAIN gz = {FirstTime}
       /\ DOMAIN plain = {FirstTime + 2}
       /\ ReaderYield(0) = <<1, 2, 3>>

\* The number of records in the plain file of a timestamp.
FileLen(dir, ts) == IF ts \in DOMAIN dir THEN Len(dir[ts]) ELSE 0

\* C8: no record is appended to a file whose timestamp belongs to a segment
\* a rotation has sealed.
C8_SealedImmutable ==
  [][\A ts \in hist.sealed : FileLen(plain', ts) <= FileLen(plain, ts)]_vars

C10_NoLateReopen == [][ucl.pc = "done" => Len(opens') <= Len(opens)]_vars

\* C11: a listing holds at most one segment per timestamp, one for every
\* timestamp that has a matching file and no other, and the gzipped file when
\* both exist, whatever the order of the directory enumeration.
C11_OnePerTime ==
  LET L == reader.listing
  IN reader.pc = "listed" =>
       /\ \A i, j \in 1..Len(L) : L[i].time = L[j].time => i = j
       /\ {L[i].time : i \in 1..Len(L)}
            = {k \in (DOMAIN plain) \cup (DOMAIN gz) : MatchesRegex(k)}
       /\ \A i \in 1..Len(L) : L[i].gzipped <=> L[i].time \in DOMAIN gz

\* A listing of two timestamps, one of them with both files, the gzipped one
\* enumerated first.
C11_Witness ==
  /\ reader.pc = "listed"
  /\ Len(reader.listing) >= 2
  /\ \E i, j \in 1..Len(reader.readdir) :
       /\ i < j
       /\ reader.readdir[i].time = reader.readdir[j].time
       /\ reader.readdir[i].gzipped
       /\ ~reader.readdir[j].gzipped

\* C12: getStoreFiles returns the segments ascending by time, whatever the
\* order of the directory enumeration.
C12_Ascending ==
  LET L == reader.listing
  IN reader.pc = "listed" =>
       \A i, j \in 1..Len(L) : i < j => L[i].time < L[j].time

\* C13: over an ascending listing getNextFile(sinceMs) returns the segment
\* with the smallest timestamp strictly greater than sinceMs, and null when
\* there is none.
C13_NextAfter ==
  LET L == reader.listing
      later == {i \in 1..Len(L) : L[i].time > reader.lastReadTimestamp}
  IN reader.pc = "next" =>
       IF later = {} THEN reader.file = NoFile
       ELSE reader.file = L[CHOOSE i \in later : \A j \in later : i <= j]

\* C14: a reader opened with sinceMs = 0 on a directory the writer left and
\* iterated to completion has yielded every record once, in append order.
C14_YieldsAll ==
  (reader.pc = "ended" /\ reader.startTS = 0)
     => reader.out = [i \in 1..Len(calls) |-> i]

\* C15: the iteration ends only when the current segment is the newest one
\* of the directory.
C15_EndsAtNewest ==
  reader.pc = "ended" =>
     \A i \in 1..Len(reader.listing) :
        reader.listing[i].time <= reader.file.time

\* A step of the JSON reader's loop over one record.
ReadStep == reader.pc = "reading" /\ reader'.pos = reader.pos + 1

\* The record such a step reads, and its logTimestamp.
ReadId == Lines(reader.file)[reader.pos + 1].id

ReadTs == logTimestamp(ReadId)

\* C16: open(sinceMs) sets lastReadTimestamp to sinceMs; a record is yielded
\* iff its logTimestamp is not less than lastReadTimestamp at that moment; a
\* skipped record changes nothing; a yield sets lastReadTimestamp to the
\* logTimestamp yielded; the logTimestamps yielded are non-decreasing.
C16_SkipOrYield ==
  /\ [][(reader.pc = "new" /\ reader'.pc = "reading")
          => reader'.lastReadTimestamp = reader'.startTS]_vars
  /\ [][ReadStep =>
          /\ (ReadTs >= reader.lastReadTimestamp)
               <=> (reader'.out = Append(reader.out, ReadId))
          /\ ReadTs < reader.lastReadTimestamp
               => /\ reader'.out = reader.out
                  /\ reader'.lastReadTimestamp = reader.lastReadTimestamp
          /\ ReadTs >= reader.lastReadTimestamp
               => reader'.lastReadTimestamp = ReadTs]_vars
  /\ [](\A i, j \in 1..Len(reader.out) :
          i < j => logTimestamp(reader.out[i]) <= logTimestamp(reader.out[j]))

\* An iteration that has skipped a record and yielded two of one timestamp.
C16_Witness ==
  /\ reader.skipped # <<>>
  /\ \E i \in 1..(Len(reader.out) - 1) :
       logTimestamp(reader.out[i]) = logTimestamp(reader.out[i + 1])

\* Every write() of the session so far returned true.
AllAccepted == \A i \in 1..Len(rets) : rets[i]

\* The files of the directory with their contents.
SegmentFiles == {plain[k] : k \in DOMAIN plain} \cup {gz[k] : k \in DOMAIN gz}

\* The positions of the ENTRY packets in a run of packets.
EntriesIn(packets) ==
  {i \in 1..Len(packets) : calls[packets[i].id].type = "ENTRY"}

\* C17: the first packet of every segment file a NodesWriter wrote is a
\* CONFIG packet, and it carries the {frequency, interval} of the first
\* entry of that segment.
C17_ConfigFirst ==
  AllAccepted =>
    \A f \in SegmentFiles :
       f # <<>> =>
         /\ calls[f[1].id].type = "CONFIG"
         /\ \A i \in EntriesIn(f) :
              (\A j \in EntriesIn(f) : i <= j)
                 => calls[f[1].id].config = calls[f[i].id].config

\* The timestamps of the ENTRY packets in a run of packets.
RECURSIVE EntryTimes(_)
EntryTimes(packets) ==
  IF packets = <<>> THEN <<>>
  ELSE (IF calls[Head(packets).id].type = "ENTRY"
          THEN <<calls[Head(packets).id].ts>> ELSE <<>>)
       \o EntryTimes(Tail(packets))

\* C18: in every segment file of a session whose packets were all accepted
\* the first ENTRY carries its logTimestamp itself and every other one the
\* increment, not negative, over the entry before it, and a reader that
\* decodes the packets of the file in order gets every logTimestamp back, in
\* non-decreasing order.
C18_DeltaExact ==
  AllAccepted =>
    \A f \in SegmentFiles :
       LET read == readEntries(f, 0)
       IN /\ \A i \in EntriesIn(f) :
               IF \A j \in EntriesIn(f) : i <= j
                 THEN calls[f[i].id].time = calls[f[i].id].ts
                 ELSE calls[f[i].id].time >= 0
          /\ read = EntryTimes(f)
          /\ \A i \in 1..(Len(read) - 1) : read[i] <= read[i + 1]

\* C19: decoding the encoding of a valid NodeEntry gives the entry back field
\* for field, and so does fromJSON on its toJSON.
C19_RoundTrip ==
  entry.pc \in {"binary", "json"} => entry.out = entry.e

\* C20: after any sequence of index() calls the stored UP_COUNT is the number
\* of hostnames that have an UP marker.
C20_UpCount == getUpCount(dns) = Cardinality(dns.UP)

\* The index() calls written for the keys ks, summed.
RECURSIVE IndexedSum(_, _)
IndexedSum(db, ks) ==
  IF ks = {} THEN 0
  ELSE LET k == CHOOSE x \in ks : TRUE
       IN indexedCount(db, k) + IndexedSum(db, ks \ {k})

\* The keys of the calls for host h whose time falls into the bucket of t.
BucketKeys(h, t, interval, outcomes) ==
  {<<h, u, o>> : u \in {v \in DNSTimes :
                          floorTime(v, interval) = floorTime(t, interval)},
                 o \in outcomes}

\* The row of host h for the bucket of t holds the calls counted.
RowCounts(rows, h, t, interval) ==
  LET row == bucketStatus(rows, <<h, floorTime(t, interval)>>)
  IN /\ row.total = IndexedSum(dns, BucketKeys(h, t, interval, BOOLEAN))
     /\ row.up = IndexedSum(dns, BucketKeys(h, t, interval, {TRUE}))

\* C21: for every host and every hour and day bucket, the stored bucket
\* status counts in total the entries indexed for that host whose time
\* floors to the bucket, and in up those of them that were successful.
C21_BucketCounts ==
  \A h \in DNSHosts, t \in DNSTimes :
    /\ RowCounts(dns.STATUS_HOUR_BY_HOST, h, t, HOUR)
    /\ RowCounts(dns.STATUS_DAY_BY_HOST, h, t, DAY)

\* A host with two entries in one hour bucket, one of them successful, and
\* a third entry in another hour of the same day.
C21_Witness ==
  /\ <<"a", 0>> \in DOMAIN dns.STATUS_HOUR_BY_HOST
  /\ dns.STATUS_HOUR_BY_HOST[<<"a", 0>>] = [up |-> 1, total |-> 2]
  /\ <<"a", 0>> \in DOMAIN dns.STATUS_DAY_BY_HOST
  /\ dns.STATUS_DAY_BY_HOST[<<"a", 0>>] = [up |-> 2, total |-> 3]

\* The 'now' state of the DNS index: the last status and last-up time of
\* every host, the UP markers and the UP_COUNT scalar.
NowState(db) == <<db.LAST_STATUS, db.LAST_UP, db.UP, db.UP_COUNT>>

\* An index() call with the entry of the call before it, which was written.
Replay ==
  /\ dns.last # <<>>
  /\ dns.last[1].ok
  /\ dns'.calls = dns.calls + 1
  /\ dns'.last[1].entry = dns.last[1].entry

\* C22: indexing the same event twice in a row leaves LAST_STATUS, LAST_UP,
\* the UP markers and the UP_COUNT scalar as indexing it once left them.
C22_ReplayNow == [][Replay => NowState(dns') = NowState(dns)]_vars

\* C23: indexing the same event twice in a row leaves the whole stored
\* index, bucket rows and per-bucket up-counts included, as indexing it once
\* left it.
C23_ReplayAll == [][Replay => Stored(dns') = Stored(dns)]_vars

\* The rows of the maps of the DNS bucket, by the id of their index.
RowsOf(db, id) ==
  CASE id = idUP_COUNT_10 -> db.UP_COUNT_10
    [] id = idUP_COUNT_HOUR -> db.UP_COUNT_HOUR
    [] id = idUP_COUNT_DAY -> db.UP_COUNT_DAY
    [] id = idSTATUS_10_BY_HOST -> db.STATUS_10_BY_HOST
    [] id = idSTATUS_HOUR_BY_HOST -> db.STATUS_HOUR_BY_HOST
    [] id = idSTATUS_DAY_BY_HOST -> db.STATUS_DAY_BY_HOST

CleanedIds ==
  {idUP_COUNT_10, idUP_COUNT_HOUR, idUP_COUNT_DAY, idSTATUS_10_BY_HOST,
   idSTATUS_HOUR_BY_HOST, idSTATUS_DAY_BY_HOST}

\* The row k of the index that the cleanup o is to delete.
ToDelete(o, k) ==
  IF o.hostname = <<>> THEN k < o.before
  ELSE k[1] = o.hostname[1] /\ k[2] < o.before

\* A step that is a cleanup by time.
CleanupStep == dns.op = <<>> /\ dns'.op # <<>> /\ dns'.op[1].fn # "cleanupStale"

\* C24: a cleanup by time deletes every row of its index (for its host,
\* where it takes one) with a bucket timestamp below before, keeps the
\* rows at or after before, and leaves every other host and index alone.
C24_CleanupFrame ==
  [][CleanupStep =>
       LET o == dns'.op[1]
       IN /\ \A id \in CleanedIds :
               RowsOf(dns', id) =
                 IF id = o.id
                   THEN Restrict(RowsOf(dns, id),
                          {k \in DOMAIN RowsOf(dns, id) : ~ToDelete(o, k)})
                   ELSE RowsOf(dns, id)
          /\ <<dns'.LAST_TIMESTAMP, dns'.LAST_STATUS, dns'.LAST_UP, dns'.UP,
                dns'.UP_COUNT, dns'.stale>>
               = <<dns.LAST_TIMESTAMP, dns.LAST_STATUS, dns.LAST_UP, dns.UP,
                   dns.UP_COUNT, dns.stale>>]_vars

\* cleanupHourlyStatusesByTime("a", HOUR) has deleted the row of the first
\* hour of host "a" and kept the row of the same hour of host "ab".
C24_Witness ==
  /\ dns.op # <<>>
  /\ dns.op[1].fn = "cleanupHourlyStatusesByTime"
  /\ dns.op[1].hostname = <<"a">>
  /\ dns.op[1].before = HOUR
  /\ dns.calls = 2
  /\ dns.LAST_STATUS # <<>>
  /\ DOMAIN dns.LAST_STATUS = DNSHosts
  /\ DOMAIN dns.STATUS_HOUR_BY_HOST = {<<"ab", 0>>}
  /\ dns.stale # {}

\* A step that is a cleanupStale() call.
StaleStep == dns.op = <<>> /\ dns'.op # <<>> /\ dns'.op[1].fn = "cleanupStale"

\* C25: after cleanupStale() the store holds no key of the deprecated
\* by-time indexes.
C25_NoStale == [][StaleStep => dns'.stale = {}]_vars

\* The share of a counter in the total is strictly over one half.
Majority(counter, total) == counter * 2 > total

\* C30: getVirtualEntry gives a failed entry iff the percentile of the
\* bucket (up / total, -1 when total is 0) is below onlinePercentile;
\* otherwise a successful entry in which spv, canSync, compacted and pruned
\* are set iff their counter over total is strictly greater than one half,
\* and whose version has the highest count of the histogram.
C30_VirtualEntry ==
  bucketStat.virt # <<>> =>
    LET st == bucketStat.s
        v == bucketStat.virt[1]
        below == IF st.total = 0 THEN TRUE
                 ELSE st.up * 100 < onlinePercentile * st.total
    IN /\ entryFailed(v) <=> below
       /\ ~entryFailed(v) =>
            /\ entrySuccessful(v)
            /\ hasBloom(v.result[1]) <=> Majority(st.spv, st.total)
            /\ canSync(v.result[1]) <=> Majority(st.canSync, st.total)
            /\ v.result[1].treeCompacted <=> Majority(st.compacted, st.total)
            /\ v.result[1].pruned <=> Majority(st.pruned, st.total)
            /\ \A i \in 1..Len(st.version) :
                 versionGet(st.version, version(v.result[1]))
                   >= st.version[i].value

\* The virtual entry of a bucket of ten entries, nine of them up: it is
\* successful, with canSync set and pruned not, of the version of most.
C30_Witness ==
  /\ bucketStat.virt # <<>>
  /\ bucketStat.s.total = 10
  /\ bucketStat.s.up = 9
  /\ bucketStat.s.pruned = 3
  /\ Len(bucketStat.s.version) = 2
  /\ entrySuccessful(bucketStat.virt[1])
  /\ canSync(bucketStat.virt[1].result[1])
  /\ ~bucketStat.virt[1].result[1].pruned
  /\ version(bucketStat.virt[1].result[1]) = "6.1.0"

\* The keys and the bucket times of the entries indexed.
IndexKeys == {entryKey(e) : e \in IndexEntries}

BucketTimes(interval) == {floorTime(ts, interval) : ts \in LogTimestamps}

\* What the getters of a NodeIndexer return, for every key and bucket.
Getters(ix) ==
  [isUp |-> [k \in IndexKeys |-> nodeIsUp(ix, k)],
   getLastUp |-> [k \in IndexKeys |-> getLastUp(ix, k)],
   getLastStatus |-> [k \in IndexKeys |-> getLastStatus(ix, k)],
   getLastTimestamp |-> ix.db.LAST_TIMESTAMP,
   getUpCounts |-> getUpCounts(ix),
   getUpCounts10 |-> [t \in BucketTimes(10 * MINUTE) |-> getUpCounts10(ix, t)],
   getHourlyStatusByHost |->
     [k \in IndexKeys \X BucketTimes(HOUR) |-> getStatusByHost(ix, Hourly, k)],
   getHourlyUpCounts |->
     [t \in BucketTimes(HOUR) |-> getBucketUpCounts(ix, Hourly, t)],
   getDailyStatusByHost |->
     [k \in IndexKeys \X BucketTimes(DAY) |-> getStatusByHost(ix, Daily, k)],
   getDailyUpCounts |->
     [t \in BucketTimes(DAY) |-> getBucketUpCounts(ix, Daily, t)]]

\* An index() call that has thrown, on the indexer with caches and on the
\* one without.
ThrewOn == indexer'.calls = indexer.calls + 1 /\ indexer'.last[1].threw

ThrewOff == indexer'.calls = indexer.calls + 1 /\ indexer'.last[1].threwOff

\* C26: an index() call that fails before its batch is written applies
\* nothing: every getter returns what it returned before the call, with
\* the caches enabled as well as without.
C26_FailedIndexApplied ==
  [][/\ ThrewOn => Getters(indexer'.on) = Getters(indexer.on)
     /\ ThrewOff => Getters(indexer'.off) = Getters(indexer.off)]_vars

\* The keys an index() call of entry e at the given time is to update.
GatedKeys(e, time) ==
  {"LAST_TIMESTAMP", "PORT_MAPPINGS", "LAST_STATUS", "STATUS_10_BY_HOST",
   "STATUS_DAY_BY_HOST", "UP_COUNTS_DAY"}
  \cup (IF entrySuccessful(e) THEN {"LAST_UP"} ELSE {})
  \cup (IF e.logTimestamp > time - DAY
          THEN {"UP_COUNTS", "UP_COUNTS_10", "UP"} ELSE {})
  \cup (IF e.logTimestamp > time - 2 * WEEK
          THEN {"STATUS_HOUR_BY_HOST", "UP_COUNTS_HOUR"} ELSE {})

\* An index() call that was written, on both indexers.
Written ==
  /\ indexer'.calls = indexer.calls + 1
  /\ ~indexer'.last[1].threw
  /\ ~indexer'.last[1].threwOff

\* C27: an index() call updates UP_COUNTS, UP_COUNTS_10 and the UP marker
\* iff entry.logTimestamp > now - DAY, the hourly bucket and UP_COUNTS_HOUR
\* iff entry.logTimestamp > now - 2 * WEEK, and always LAST_TIMESTAMP, the
\* port mapping, LAST_STATUS, LAST_UP (if successful) and the daily bucket
\* with UP_COUNTS_DAY; whatever it does not update stays as it was.
C27_RecencyGates ==
  [][Written =>
       LET call == indexer'.last[1]
           keys == GatedKeys(call.entry, call.time)
       IN /\ call.puts = keys
          /\ call.putsOff = keys
          /\ \A name \in (DOMAIN NoNodeDB) \ keys :
               /\ indexer'.on.db[name] = indexer.on.db[name]
               /\ indexer'.off.db[name] = indexer.off.db[name]]_vars

\* An entry logged exactly a day before now has been indexed: its hourly
\* bucket is there, the up-counts and the marker are not; and so has one
\* logged exactly two weeks before, which has a daily bucket only.
C27_Witness ==
  /\ indexer.calls = 2
  /\ indexer.last # <<>>
  /\ ~indexer.last[1].threw
  /\ indexer.last[1].entry.logTimestamp = NodeNow - DAY
  /\ entrySuccessful(indexer.last[1].entry)
  /\ Cardinality(DOMAIN indexer.on.db.STATUS_HOUR_BY_HOST) = 1
  /\ Cardinality(DOMAIN indexer.on.db.STATUS_DAY_BY_HOST) = 2
  /\ indexer.on.db.UP_COUNTS = <<>>
  /\ indexer.on.db.UP = {}
  /\ DOMAIN indexer.on.db.LAST_UP # {}

\* C28: after any index and cleanup calls the indexer with its caches and
\* the one without hold the same keys and values in their stores, and
\* every getter returns the same from both.
C28_CachesRefine ==
  /\ indexer.on.db = indexer.off.db
  /\ Getters(indexer.on) = Getters(indexer.off)

\* The hosts with a status row in bucket t, and the virtual entry of the
\* row of host k.
HostsOf(db, b, t) == {k \in IndexKeys : <<k, t>> \in DOMAIN db[b.rows]}

VirtualOf(db, b, t, k) ==
  getVirtualEntry(db[b.rows][<<k, t>>],
                  CHOOSE e \in IndexEntries : entryKey(e) = k,
                  onlinePercentile)

UpHosts(db, b, t) ==
  {k \in HostsOf(db, b, t) : entrySuccessful(VirtualOf(db, b, t, k))}

\* The up-counts of bucket t are the sum of the virtual entries of its
\* hosts.
SumOfVirtual(db, b, t) ==
  LET counts == IF t \in DOMAIN db[b.counts] THEN db[b.counts][t]
                ELSE UpCounts
      up == UpHosts(db, b, t)
      details(k) == VirtualOf(db, b, t, k).result[1]
  IN /\ counts.total = Cardinality(up)
     /\ counts.total =
          Cardinality({k \in HostsOf(db, b, t) :
            LET st == db[b.rows][<<k, t>>]
            IN st.total > 0 /\ 100 * st.up >= onlinePercentile * st.total})
     /\ counts.spv = Cardinality({k \in up : hasBloom(details(k))})
     /\ counts.canSync = Cardinality({k \in up : canSync(details(k))})
     /\ counts.compacted = Cardinality({k \in up : details(k).treeCompacted})
     /\ counts.pruned = Cardinality({k \in up : details(k).pruned})
     /\ \A v \in SemVers \cup {"other"} :
          versionGet(counts.version, v)
            = Cardinality({k \in up : version(details(k)) = v})

\* C29: after index() calls none of which has thrown, and no cleanup, the
\* up-counts of every hour and every day bucket are the sum over the hosts
\* of the virtual entries of their status rows in the bucket: the total is
\* the number of hosts whose percentile is at least onlinePercentile, the
\* feature and version counters those of the hosts' majority features.
C29_BucketUpCounts ==
  (~indexer.threw /\ indexer.op = <<>>) =>
    \A ix \in {indexer.on.db, indexer.off.db} :
      /\ \A t \in BucketTimes(HOUR) : SumOfVirtual(ix, Hourly, t)
      /\ \A t \in BucketTimes(DAY) : SumOfVirtual(ix, Daily, t)

\* Three calls, none thrown: a host seen up and then down, which no longer
\* counts, and another host seen up, in the same day bucket.
C29_Witness ==
  /\ ~indexer.threw
  /\ indexer.op = <<>>
  /\ indexer.calls = 3
  /\ \E t \in BucketTimes(DAY) :
       /\ Cardinality(HostsOf(indexer.on.db, Daily, t)) = 2
       /\ Cardinality(UpHosts(indexer.on.db, Daily, t)) = 1
       /\ \E k \in HostsOf(indexer.on.db, Daily, t) :
            /\ indexer.on.db.STATUS_DAY_BY_HOST[<<k, t>>].up = 1
            /\ indexer.on.db.STATUS_DAY_BY_HOST[<<k, t>>].total = 2
       /\ indexer.on.db.UP_COUNTS_DAY[t].total = 1

\* The hostnames whose status row for bucket t has a percentage of at least
\* onlinePercentile; a row with total = 0, or none, has percentage -1.
OnlineHosts(rows, t) ==
  {h \in DNSHosts :
     /\ <<h, t>> \in DOMAIN rows
     /\ rows[<<h, t>>].total > 0
     /\ 100 * rows[<<h, t>>].up >= onlinePercentile * rows[<<h, t>>].total}

\* C31: after any index() calls without cleanup, UP_COUNT_HOUR[b] and
\* UP_COUNT_DAY[b] are, for every bucket b, the number of hostnames whose
\* DNSBucketStatus for b has a percentage of at least onlinePercentile; a
\* bucket with total = 0 has percentage -1 and counts for nothing.
C31_DNSBucketUpCounts ==
  /\ \A t \in {floorTime(u, HOUR) : u \in DNSTimes} :
       bucketUpCount(dns.UP_COUNT_HOUR, t)
         = Cardinality(OnlineHosts(dns.STATUS_HOUR_BY_HOST, t))
  /\ \A t \in {floorTime(u, DAY) : u \in DNSTimes} :
       bucketUpCount(dns.UP_COUNT_DAY, t)
         = Cardinality(OnlineHosts(dns.STATUS_DAY_BY_HOST, t))

\* Two hosts in the first hour: one seen up only, the other seen up and
\* then down, which takes it out of the count again.
C31_Witness ==
  /\ <<"a", 0>> \in DOMAIN dns.STATUS_HOUR_BY_HOST
  /\ <<"ab", 0>> \in DOMAIN dns.STATUS_HOUR_BY_HOST
  /\ dns.STATUS_HOUR_BY_HOST[<<"a", 0>>] = [up |-> 1, total |-> 1]
  /\ dns.STATUS_HOUR_BY_HOST[<<"ab", 0>>] = [up |-> 1, total |-> 2]
  /\ dns.UP_COUNT_HOUR[0] = 1
  /\ dns.UP_COUNT_DAY[0] = 1

\* An index() call made as the clock runs in which indexUpCounts takes the
\* host's previous observation off UP_COUNTS.
Subtracts ==
  /\ indexer'.calls = indexer.calls + 1
  /\ indexer'.last[1].sub # <<>>

\* C32: whenever indexUpCounts subtracts a host's previous observation from
\* UP_COUNTS, that observation is the entry that was added to UP_COUNTS
\* when the host's UP marker was set, whatever the entries and however the
\* clock runs between the calls; so sub() takes no counter below zero and
\* its assertion on the version count holds.
C32_SubtractsWhatWasAdded ==
  [][Subtracts =>
       LET call == indexer'.last[1]
           key == entryKey(call.entry)
           counts == getUpCounts(indexer.on)
           after1 == countsSubFields(counts, call.sub[1])
       IN /\ key \in DOMAIN indexer.counted
          /\ call.sub[1] = indexer.counted[key]
          /\ countsSubOk(counts, call.sub[1])
          /\ ~call.threw
          /\ after1.total >= 0 /\ after1.spv >= 0 /\ after1.compacted >= 0
          /\ after1.pruned >= 0 /\ after1.canSync >= 0]_vars

\* C33: within one index() call, indexUpCounts reads wasUp and the host's
\* LAST_UP before indexUp and indexLastUp overwrite the marker, the row and
\* their caches: what is subtracted from UP_COUNTS is the LAST_UP as it was
\* before the call, and it is subtracted iff the host was up before the
\* call and the entry is not older than a day.
C33_ReadsBeforeOverwrite ==
  [][indexer'.calls = indexer.calls + 1 =>
       LET call == indexer'.last[1]
           key == entryKey(call.entry)
           recent == call.entry.logTimestamp > call.time - DAY
       IN /\ call.sub = IF recent /\ nodeIsUp(indexer.on, key)
                          THEN getLastUp(indexer.on, key) ELSE <<>>
          /\ call.subOff = IF recent /\ nodeIsUp(indexer.off, key)
                             THEN getLastUp(indexer.off, key) ELSE <<>>]_vars

\* A call that was written has subtracted the host's earlier entry and put
\* its own in its place as LAST_UP.
C33_Witness ==
  /\ indexer.last # <<>>
  /\ "sub" \in DOMAIN indexer.last[1]
  /\ ~indexer.last[1].threw
  /\ indexer.last[1].sub # <<>>
  /\ indexer.last[1].sub[1] # indexer.last[1].entry
  /\ entrySuccessful(indexer.last[1].entry)
  /\ getLastUp(indexer.on, entryKey(indexer.last[1].entry))
       = <<indexer.last[1].entry>>
  /\ getLastUp(indexer.off, entryKey(indexer.last[1].entry))
       = <<indexer.last[1].entry>>

\* C34: after open(sinceMs) the binary reader yields no ENTRY whose
\* logTimestamp is less than sinceMs.
C34_BinResumeFilter ==
  "lastTimestamp" \in DOMAIN reader =>
    \A i \in 1..Len(reader.out) : reader.out[i] >= reader.startTS

\* C35: a truncated record at the end of a binary segment raises no error:
\* with a successor segment the reader goes on with it, without one the
\* iteration ends.
C35_BinTruncatedTail ==
  "lastTimestamp" \in DOMAIN reader => reader.pc # "threw"

\* C36: the JSON reader does not fail on a segment whose last line is a
\* partial record: the iteration never throws.
C36_PartialLineTolerated == reader.pc # "threw"

\* C37: whenever the writer is idle, with no segment open, rotation, gzip,
\* retry or close in progress, its queue is empty: every accepted write
\* has been handed to a stream.
C37_QueueDrained ==
  Running /\ ready /\ Settled /\ ucl.pc = "idle"
    /\ ~rotating /\ ~opening /\ ~closing
    => buffer = <<>>

\* The timestamps that write() calls have carried.
WriteTimes == {calls[i].ts : i \in 1..Len(calls)}

\* C38: every file the writer opens or has written is named from the
\* timestamp of some write() call, the re-open after a stream error
\* included, and at most one segment open is in flight.
C38_NamedFromWrites ==
  /\ \A i \in 1..Len(opens) : opens[i].ts \in WriteTimes
  /\ (DOMAIN plain) \cup (DOMAIN gz) \subseteq WriteTimes
  /\ Len(opens) <= 1

\* C39: when the driver, started again after a stop, has read the log to
\* its end, every record of the log that was not indexed before the stop
\* has been yielded to it.  Stated for the logs of one segment, where the
\* step from one file to the next plays no part.
C39_ResumeSkipsNothing ==
  "run" \in DOMAIN reader /\ reader.run = 2 /\ reader.pc = "ended"
    /\ Cardinality((DOMAIN plain) \cup (DOMAIN gz)) = 1
    => \A id \in (1..Len(calls)) \ reader.before :
         \E i \in 1..Len(reader.out) : reader.out[i] = id

\* C40: with cleanups of the up-counts and of the per-host statuses at any
\* point between the index() calls, no index() call computes a negative
\* up-count: the Uint32Record assertion never fails.
C40_NoNegativeUpCount == ~dns.threw

====
